---- MODULE Spec2Model ----
(***************************************************************************)
(* Model of conserve's staged-write engine: the Plan (src/conserve/plan.py) *)
(* and the structured Handle that saves through it                          *)
(* (src/conserve/config.py, JSONHandle as the concrete format).             *)
(*                                                                          *)
(* Text is a sequence of lines (str.splitlines(keepends=True)); every line  *)
(* of the modelled contents ends in a newline.  Real storage is a map from  *)
(* path to text, with the marker None for a path that does not exist.       *)
(* Distinct paths name distinct files.                                      *)
(***************************************************************************)
EXTENDS Integers, Sequences, FiniteSets, TLC

(* ------------------------------ bounds --------------------------------- *)

\* Values a key of a document can hold are 1..MaxValue.
MaxValue == 1

(* ------------------------------ domains -------------------------------- *)

Paths == {"p1", "p2"}

\* The Handles of a run and the file each was constructed over.
Handles == {"h1"}

file_path(h) == "p1"

\* A path-keyed map with no entry.
EmptyMap == [p \in {} |-> << >>]

\* Python's None, as a text no file can hold.
None == <<"<None>">>

\* The one key the modelled documents use.
Key == "a"

\* An absent key of a document.
NoValue == 0

\* A document is a flat mapping over Key; NoValue marks the key as absent.
Docs == [{Key} -> 0..MaxValue]

EmptyDoc == [k \in {Key} |-> NoValue]

(* ------------------------ JSONHandle._parse/_dump ---------------------- *)

ValueText(v) == IF v = 1 THEN "  \"a\": 1" ELSE IF v = 2 THEN "  \"a\": 2" ELSE "  \"a\": 3"

\* json.dumps(document, indent=2, ensure_ascii=False) + "\n", as lines.
dump(document) ==
    IF document[Key] = NoValue THEN << "{}" >>
    ELSE << "{", ValueText(document[Key]), "}" >>

\* A text json.loads rejects.
Malformed == << "{" >>

\* The empty file.
EmptyText == << >>

Contents == {EmptyText, Malformed} \cup {dump(d) : d \in Docs}

\* json.loads raises on the text (content.strip() is not empty and is not JSON).
ParseFails(content) == content # EmptyText /\ ~ \E d \in Docs : dump(d) = content

\* json.loads(content) if content.strip() else {}
parse(content) ==
    IF content = EmptyText THEN EmptyDoc
    ELSE CHOOSE d \in Docs : dump(d) = content

(* --------------------------- ordered dict ------------------------------ *)
\* A Python dict keeps insertion order: a sequence of [path, text] entries.

Keys(m) == {m[i].path : i \in DOMAIN m}

Get(m, k) == m[CHOOSE i \in DOMAIN m : m[i].path = k].text

Put(m, k, v) ==
    IF k \in Keys(m)
    THEN [i \in DOMAIN m |-> IF m[i].path = k THEN [path |-> k, text |-> v] ELSE m[i]]
    ELSE Append(m, [path |-> k, text |-> v])

(* ------------------------------ state ---------------------------------- *)

VARIABLES
    disk,               \* real storage: path -> text or None
    document,           \* Handle.document, per Handle
    loaded,             \* Handle._loaded, per Handle
    staging_map,        \* Plan._staging_map: ordered path -> staged text
    original_contents,  \* Plan._original_contents: path -> text or None
    ret,                \* the last call and what it returned
    first_seen,         \* history: real text of a path when it was first staged
    last_staged,        \* history: text of the most recent stage call per path
    first_order,        \* history: paths in the order they were first staged
    restaged,           \* history: paths a later call of Plan.stage gave another text
    touched,            \* history: Handles that read, replace, merge, delete or
                        \* save was called on
    heap,               \* the mappings in memory: object -> ordered key/value entries
    doc_ref,            \* the document of a loaded Handle: an object or a plain value
    out,                \* the last call on objects in memory and what it returned
    run                 \* the apply run of the command line: its position and report

vars == <<disk, document, loaded, staging_map, original_contents, ret,
          first_seen, last_staged, first_order, restaged, touched,
          heap, doc_ref, out, run>>

extVars == <<heap, doc_ref, out, run>>

handleVars == <<document, loaded>>

planVars == <<staging_map, original_contents>>
histVars == <<first_seen, last_staged, first_order, restaged>>

\* What the last call did and returned: the operation ("handle" for read,
\* replace, merge, delete and save), the number of load() calls it made,
\* whether it raised, the paths that were staged when a commit, rollback or
\* clear began, whether an explicit load replaced a loaded document that
\* differed from the one it read, the error it raised ("parse" from the
\* format's parser, "strategy" for an unknown merge strategy, "storage" from
\* a write, "attribute" for an attribute the object lacks), and the
\* returned summary, preview or document.
NoRet(op) == [op |-> op, nloads |-> 0, raised |-> FALSE, had |-> {},
              dropped |-> FALSE, error |-> "",
              diff |-> << >>, view |-> EmptyMap, doc |-> EmptyDoc]

\* An apply run: where it stands ("idle" outside a run, "tasks" while the
\* selected tasks run, "prompt" at the confirmation), the tasks still to be
\* invoked (none once the run has returned), the number selected and the
\* number invoked, the yes and dry_run arguments, whether a task raised, the
\* calls the run made on the Plan, the answer the prompt got and whether
\* apply itself raised.
NoRun == [pc |-> "idle", rest |-> << >>, selected |-> 0, invoked |-> 0,
          yes |-> FALSE, dry_run |-> FALSE, failed |-> FALSE, calls |-> << >>,
          answer |-> "", raised |-> FALSE]

(* ------------------------------- File ---------------------------------- *)

exists(d, path) == d[path] # None

read_text(d, path) == d[path]

write_text(d, path, content) == [d EXCEPT ![path] = content]

\* A directory, as a text no file can hold.
Dir == <<"<dir>">>

\* path.parent: the one nested path of the model lies in the directory sub,
\* every other path in the working directory, which exists.
path_parent(path) == IF path = "sub/p3" THEN "sub" ELSE ""

\* path.parent.mkdir(parents=True, exist_ok=True)
mkdir(d, dir) == IF dir = "" THEN d ELSE [d EXCEPT ![dir] = Dir]

\* open(path, "w") finds the directory of the path.
can_write(d, path) == path_parent(path) = "" \/ d[path_parent(path)] = Dir

(* ------------------------ documents in memory -------------------------- *)
\* A mapping is an object: merging changes it in place and a value put under
\* a key is the object itself, not a copy.  A value is an object (a mapping)
\* or a plain value: a number or a list, which merging treats as a whole.

\* The mapping a Handle parsed, three mappings a caller holds, the mapping
\* nested in each, and the fresh mapping a call returns.
Roots == {"d", "p", "q", "r"}

Nested == {"dc", "pc", "qc", "rc"}

Fresh == "new"

\* The document tomlkit parsed and the table nested in it, and a second
\* such document with its table, which a caller holds.
TomlObjs == {"t", "tc", "u", "uc"}

\* isinstance(o, TOMLDocument), isinstance(o, TOMLTable)
toml_type(o) ==
    IF o \in {"t", "u"} THEN "TOMLDocument" ELSE IF o \in {"tc", "uc"} THEN "TOMLTable" ELSE ""

\* The mapping read() returned and the mapping nested in it.
Views == {"v", "vc"}

Objs == Roots \cup Nested \cup {Fresh} \cup TomlObjs \cup Views

child(o) ==
    IF o = "d" THEN "dc" ELSE IF o = "p" THEN "pc" ELSE IF o = "q" THEN "qc"
    ELSE IF o = "t" THEN "tc" ELSE IF o = "u" THEN "uc" ELSE IF o = "v" THEN "vc" ELSE "rc"

Numbers == {"1", "2"}

\* arr = tomlkit.array(); arr.multiline(True); the items appended in order
multiline(v) == "multiline " \o v

FlatLists == {"[9]", "[9, 9]", "[7, 8, 9]"}

Lists == FlatLists \cup {multiline(v) : v \in FlatLists}

\* len(value)
len_of(v) ==
    IF v \in {"[9]", multiline("[9]")} THEN 1
    ELSE IF v \in {"[9, 9]", multiline("[9, 9]")} THEN 2 ELSE 3

\* The plain values the mappings hold at the start.
Plain == Numbers \cup {"[9]"}

\* isinstance(v, dict), isinstance(v, list)
type_of(v) == IF v \in Objs THEN "dict" ELSE IF v \in Lists THEN "list" ELSE "int"

Entry(k, v) == [key |-> k, val |-> v]

EmptyHeap == [o \in Objs |-> << >>]

\* The last call on documents in memory: the operation, the number of
\* documents or paths it was given, the merge strategy, whether it raised,
\* the value it returned and, for delete, whether the document it left
\* differs from the one it found.
NoOut(op) == [op |-> op, n |-> 0, strategy |-> "", raised |-> FALSE, result |-> "",
              changed |-> FALSE]

\* k in obj
dict_has(n, k) == \E i \in DOMAIN n : n[i].key = k

\* obj[k]
dict_get(n, k) == n[CHOOSE i \in DOMAIN n : n[i].key = k].val

\* obj[k] = v: an existing key keeps its place, a new key goes last.
dict_set(n, k, v) ==
    IF dict_has(n, k)
    THEN [i \in DOMAIN n |-> IF n[i].key = k THEN Entry(k, v) ELSE n[i]]
    ELSE Append(n, Entry(k, v))

\* del obj[k]
dict_del(n, k) == SelectSeq(n, LAMBDA e : e.key # k)

\* The value an object or a plain value stands for, as dict equality sees it:
\* the set of its leaves with the keys that lead to each ("{}" for a mapping
\* without keys).
RECURSIVE Value(_, _)
Value(hp, v) ==
    IF v \notin Objs THEN {<< << >>, v >>}
    ELSE IF hp[v] = << >> THEN {<< << >>, "{}" >>}
    ELSE UNION { { << <<hp[v][i].key>> \o leaf[1], leaf[2] >> : leaf \in Value(hp, hp[v][i].val) }
                 : i \in DOMAIN hp[v] }

(* --------------------------- conserve_merger --------------------------- *)

RECURSIVE value_strategy(_, _, _)
RECURSIVE merge_items(_, _, _, _)

\* base[k] = v.  A tomlkit container stores the item it makes of v: of a
\* plain dict a new table with the same entries, never the dict itself.
put(hp, base, k, v) ==
    IF base \in TomlObjs /\ v \in Objs \ TomlObjs
    THEN [hp EXCEPT !["tc"] = hp[v], ![base] = dict_set(hp[base], k, "tc")]
    ELSE [hp EXCEPT ![base] = dict_set(hp[base], k, v)]

\* config.py 48, (dict, ["merge"]): for k, v in nxt.items(), a key the base
\* lacks takes v itself, a key it has takes value_strategy(base[k], v); the
\* base is changed in place and returned.
strategy_merge(hp, base, nxt) ==
    merge_items(hp, base, nxt, [i \in DOMAIN hp[nxt] |-> hp[nxt][i].key])

merge_items(hp, base, nxt, ks) ==
    IF ks = << >> THEN hp
    ELSE LET k == Head(ks)
             v == dict_get(hp[nxt], k)
         IN  IF ~ dict_has(hp[base], k)
             THEN merge_items(put(hp, base, k, v), base, nxt, Tail(ks))
             ELSE LET r == value_strategy(hp, dict_get(hp[base], k), v)
                  IN  merge_items(put(r.heap, base, k, r.val), base, nxt, Tail(ks))

\* config.py 21-37: for key, value in nxt.items()
RECURSIVE format_preserving_items(_, _, _, _)
format_preserving_items(hp, base, nxt, ks) ==
    IF ks = << >> THEN hp
    ELSE LET key   == Head(ks)
             value == dict_get(hp[nxt], key)
         IN  IF ~ dict_has(hp[base], key)
             THEN format_preserving_items(put(hp, base, key, value), base, nxt, Tail(ks))
             ELSE IF toml_type(base) # "" /\ type_of(value) = "list" /\ len_of(value) > 2
             THEN format_preserving_items(put(hp, base, key, multiline(value)),
                                          base, nxt, Tail(ks))
             ELSE LET r == value_strategy(hp, dict_get(hp[base], key), value)
                  IN  format_preserving_items(put(r.heap, base, key, r.val), base, nxt, Tail(ks))

format_preserving_merge(hp, base, nxt) ==
    format_preserving_items(hp, base, nxt, [i \in DOMAIN hp[nxt] |-> hp[nxt][i].key])

\* Variant of value_strategy that appends the patch's list to the base's.
value_strategy_append(hp, base, nxt) ==
    IF type_of(base) # type_of(nxt) THEN [heap |-> hp, val |-> nxt]
    ELSE IF type_of(base) = "dict" THEN [heap |-> strategy_merge(hp, base, nxt), val |-> base]
    ELSE IF type_of(base) = "list"
    THEN [heap |-> hp, val |-> IF base = "[9]" /\ nxt = "[9]" THEN "[9, 9]" ELSE nxt]
    ELSE [heap |-> hp, val |-> nxt]

\* config.py 41-53, conserve_merger.merge(base, nxt): the first strategy
\* whose type both values are instances of is taken, so two TOML documents
\* and two TOML tables are merged by format_preserving_merge (43-44); values
\* of different types conflict and the patch's is taken (52); two dicts, of
\* which TOML documents and tables are kinds, are merged (48); two lists
\* (49) and everything else (51) take the patch's.
value_strategy(hp, base, nxt) ==
    IF toml_type(base) # "" /\ toml_type(base) = toml_type(nxt)
    THEN [heap |-> format_preserving_merge(hp, base, nxt), val |-> base]
    ELSE IF type_of(base) # type_of(nxt) THEN [heap |-> hp, val |-> nxt]
    ELSE IF type_of(base) = "dict" THEN [heap |-> strategy_merge(hp, base, nxt), val |-> base]
    ELSE IF type_of(base) = "list" THEN [heap |-> hp, val |-> nxt]
    ELSE [heap |-> hp, val |-> nxt]

\* config.py 67-69: result = docs[0]; each later document is merged into it.
RECURSIVE merge_each(_, _, _)
merge_each(hp, result, rest) ==
    IF rest = << >> THEN [heap |-> hp, val |-> result]
    ELSE LET r == value_strategy(hp, result, Head(rest))
         IN  merge_each(r.heap, r.val, Tail(rest))

(* ------------------------------- Plan ---------------------------------- *)

\* Variant of stage_original that never records the original content.
stage_original_never(oc, d, real_path) == oc

\* Variant of stage_original that records the real content at every stage call.
stage_original_always(oc, d, real_path) ==
    [p \in DOMAIN oc \cup {real_path} |->
        IF p = real_path
        THEN (IF exists(d, real_path) THEN read_text(d, real_path) ELSE None)
        ELSE oc[p]]

\* plan.py 24-27: record the original content on first staging only.
stage_original(oc, d, real_path) ==
    IF real_path \notin DOMAIN oc
    THEN [p \in DOMAIN oc \cup {real_path} |->
            IF p = real_path
            THEN (IF exists(d, real_path) THEN read_text(d, real_path) ELSE None)
            ELSE oc[p]]
    ELSE oc

\* Variant of stage_memory that keeps the text staged first for a path.
stage_memory_first(sm, real_path, content) ==
    IF real_path \in Keys(sm) THEN sm ELSE Put(sm, real_path, content)

\* plan.py 29-33: a fresh memory file holds the content; the entry is overwritten.
stage_memory(sm, real_path, content) == Put(sm, real_path, content)

InitPlan ==
    /\ disk \in [Paths -> Contents \cup {None}]
    /\ document = [h \in Handles |-> EmptyDoc]
    /\ loaded = [h \in Handles |-> FALSE]
    /\ staging_map = << >>
    /\ original_contents = EmptyMap
    /\ ret = NoRet("init")
    /\ first_seen = EmptyMap
    /\ last_staged = EmptyMap
    /\ first_order = << >>
    /\ restaged = {}
    /\ touched = {}
    /\ heap = EmptyHeap
    /\ doc_ref = "d"
    /\ out = NoOut("init")
    /\ run = NoRun

\* plan.py 18-33, with the history of the transaction kept beside it.
plan_stage(real_path, content) ==
    /\ original_contents' = stage_original(original_contents, disk, real_path)
    /\ staging_map' = stage_memory(staging_map, real_path, content)
    /\ first_seen' = IF real_path \in DOMAIN first_seen THEN first_seen
                     ELSE [p \in DOMAIN first_seen \cup {real_path} |->
                             IF p = real_path THEN disk[real_path] ELSE first_seen[p]]
    /\ last_staged' = [p \in DOMAIN last_staged \cup {real_path} |->
                         IF p = real_path THEN content ELSE last_staged[p]]
    /\ first_order' = IF \E i \in DOMAIN first_order : first_order[i] = real_path
                      THEN first_order ELSE Append(first_order, real_path)

stage(real_path, content) ==
    /\ plan_stage(real_path, content)
    /\ disk' = disk
    /\ ret' = NoRet("stage")
    /\ restaged' = IF real_path \in DOMAIN last_staged /\ last_staged[real_path] # content
                   THEN restaged \cup {real_path} ELSE restaged
    /\ UNCHANGED <<handleVars, touched, extVars>>

(* ------------------------- difflib.unified_diff ------------------------ *)
\* A diff line carries its marker and its text.
DiffLine(tag, text) == [tag |-> tag, text |-> text]

RECURSIVE CommonPrefix(_, _)
CommonPrefix(a, b) ==
    IF a = << >> \/ b = << >> \/ Head(a) # Head(b) THEN 0
    ELSE 1 + CommonPrefix(Tail(a), Tail(b))

Reverse(s) == [i \in 1..Len(s) |-> s[Len(s) + 1 - i]]

Tagged(tag, s) == [i \in 1..Len(s) |-> DiffLine(tag, s[i])]

\* unified_diff(a, b, fromfile, tofile): nothing when a = b; otherwise the two
\* file headers, one hunk header and the hunk: kept lines around the removed
\* and the added lines (texts here are short enough for a single hunk).
unified_diff(a, b, fromfile, tofile) ==
    IF a = b THEN << >>
    ELSE LET pre  == CommonPrefix(a, b)
             ra   == SubSeq(a, pre + 1, Len(a))
             rb   == SubSeq(b, pre + 1, Len(b))
             suf  == CommonPrefix(Reverse(ra), Reverse(rb))
         IN  << DiffLine("---", fromfile), DiffLine("+++", tofile), DiffLine("@@", "") >>
             \o Tagged(" ", SubSeq(a, 1, pre))
             \o Tagged("-", SubSeq(ra, 1, Len(ra) - suf))
             \o Tagged("+", SubSeq(rb, 1, Len(rb) - suf))
             \o Tagged(" ", SubSeq(ra, Len(ra) - suf + 1, Len(ra)))

\* "\n".join(diffs): a line holding only the newline separates two blocks.
RECURSIVE join(_)
join(diffs) ==
    IF diffs = << >> THEN << >>
    ELSE IF Len(diffs) = 1 THEN diffs[1]
    ELSE diffs[1] \o << DiffLine("", "") >> \o join(Tail(diffs))

\* plan.py 41: original != modified
differs(original, modified) == original # modified

\* plan.py 43: (original or "")
or_empty(original) == IF original = None THEN EmptyText ELSE original

\* plan.py 37-48: the list of diff blocks, in the order of the staging map.
RECURSIVE diff_blocks(_, _)
diff_blocks(sm, oc) ==
    IF sm = << >> THEN << >>
    ELSE LET real_path == Head(sm).path
             original  == IF real_path \in DOMAIN oc THEN oc[real_path] ELSE EmptyText
             modified  == Head(sm).text
         IN  (IF differs(original, modified)
              THEN << unified_diff(or_empty(original), modified, real_path, real_path) >>
              ELSE << >>)
             \o diff_blocks(Tail(sm), oc)

\* plan.py 35-49
diff_summary(sm, oc) == join(diff_blocks(sm, oc))

\* plan.py 51-53: path -> staged text
preview_of(sm) == [p \in Keys(sm) |-> Get(sm, p)]

\* Variant of commit_writes that writes the first staged entry only.
commit_writes_first(d, sm) ==
    IF sm = << >> THEN d ELSE write_text(d, Head(sm).path, Head(sm).text)

\* plan.py 58-59: every staged text is written, in the order of the map.
RECURSIVE commit_writes(_, _)
commit_writes(d, sm) ==
    IF sm = << >> THEN d
    ELSE commit_writes(write_text(d, Head(sm).path, Head(sm).text), Tail(sm))

get_diff_summary ==
    /\ ret' = [NoRet("get_diff_summary") EXCEPT
                !.diff = diff_summary(staging_map, original_contents)]
    /\ UNCHANGED <<disk, handleVars, planVars, histVars, touched, extVars>>

preview ==
    /\ ret' = [NoRet("preview") EXCEPT !.view = preview_of(staging_map)]
    /\ UNCHANGED <<disk, handleVars, planVars, histVars, touched, extVars>>

ResetHist ==
    /\ first_seen' = EmptyMap
    /\ last_staged' = EmptyMap
    /\ first_order' = << >>
    /\ restaged' = {}

commit ==
    /\ disk' = commit_writes(disk, staging_map)
    /\ staging_map' = << >>
    /\ original_contents' = EmptyMap
    /\ ret' = [NoRet("commit") EXCEPT !.had = Keys(staging_map)]
    /\ ResetHist
    /\ UNCHANGED <<handleVars, touched, extVars>>

\* Variant of commit_raises that resets the Plan's maps before the error
\* leaves commit.
commit_raises_resets(i, torn) ==
    /\ i \in DOMAIN staging_map
    /\ disk' = LET d == commit_writes(disk, SubSeq(staging_map, 1, i - 1))
               IN  IF torn THEN write_text(d, staging_map[i].path, EmptyText) ELSE d
    /\ staging_map' = << >>
    /\ original_contents' = EmptyMap
    /\ ret' = [NoRet("commit") EXCEPT
                !.raised = TRUE, !.error = "storage", !.had = Keys(staging_map)]
    /\ ResetHist
    /\ UNCHANGED <<handleVars, touched, extVars>>

\* plan.py 58-61 when write_text raises on the i-th staged entry: the
\* entries before it are written, the failing file is as it was or, when the
\* write broke off after the file was opened, empty; the exception leaves
\* commit before the two maps are cleared.
commit_raises(i, torn) ==
    /\ i \in DOMAIN staging_map
    /\ disk' = LET d == commit_writes(disk, SubSeq(staging_map, 1, i - 1))
               IN  IF torn THEN write_text(d, staging_map[i].path, EmptyText) ELSE d
    /\ ret' = [NoRet("commit") EXCEPT
                !.raised = TRUE, !.error = "storage", !.had = Keys(staging_map)]
    /\ UNCHANGED <<planVars, histVars, handleVars, touched, extVars>>

\* Variant of rollback that keeps the recorded original contents.
rollback_keeps_original ==
    /\ staging_map' = << >>
    /\ original_contents' = original_contents
    /\ disk' = disk
    /\ ret' = [NoRet("rollback") EXCEPT !.had = Keys(staging_map)]
    /\ ResetHist
    /\ UNCHANGED <<handleVars, touched, extVars>>

rollback ==
    /\ staging_map' = << >>
    /\ original_contents' = EmptyMap
    /\ disk' = disk
    /\ ret' = [NoRet("rollback") EXCEPT !.had = Keys(staging_map)]
    /\ ResetHist
    /\ UNCHANGED <<handleVars, touched, extVars>>

clear ==
    /\ staging_map' = << >>
    /\ original_contents' = EmptyMap
    /\ disk' = disk
    /\ ret' = [NoRet("clear") EXCEPT !.had = Keys(staging_map)]
    /\ ResetHist
    /\ UNCHANGED <<handleVars, touched, extVars>>

\* A write to real storage by another writer, not through the Plan
\* (config.py 183-189 with any content).
direct_write(path, content) ==
    /\ disk' = write_text(disk, path, content)
    /\ ret' = NoRet("write")
    /\ UNCHANGED <<handleVars, planVars, histVars, touched, extVars>>

(* ------------------------------ cli.apply ------------------------------ *)

\* The texts the tasks of a run stage or write.
TaskTexts == {dump(EmptyDoc), dump([k \in {Key} |-> 1])}

\* What a task function does when the run invokes it: it stages a text for a
\* path (a Handle's save with stage=True), writes a text to a path itself, or
\* raises an Exception.
Tasks ==
    { [kind |-> "stage", path |-> "p1", text |-> c] : c \in TaskTexts }
    \cup { [kind |-> "stage", path |-> "p2", text |-> dump(EmptyDoc)],
           [kind |-> "write", path |-> "p2", text |-> dump(EmptyDoc)],
           [kind |-> "raise", path |-> "", text |-> << >>] }

\* The longest list of selected tasks.
MaxTasks == 3

\* tasks_to_run, cli.py 97-108
TaskLists == UNION { [1..n -> Tasks] : n \in 0..MaxTasks }

\* What input() returns at the prompt, and the exceptions it raises instead.
Responses == {"y", "yes", "Y", "n", ""}
Interrupts == {"KeyboardInterrupt", "EOFError"}

\* str.lower()
lower(response) == IF response = "Y" THEN "y" ELSE response

\* plan.commit() called by the run
run_commit ==
    /\ disk' = commit_writes(disk, staging_map)
    /\ staging_map' = << >>
    /\ original_contents' = EmptyMap
    /\ ResetHist

\* plan.rollback() and plan.clear() called by the run
run_reset ==
    /\ disk' = disk
    /\ staging_map' = << >>
    /\ original_contents' = EmptyMap
    /\ ResetHist

\* Variant of apply_start that runs the tasks of a dry run too.
apply_start_dry_late(tasks, yes, dry_run) ==
    /\ run.pc = "idle"
    /\ run_reset
    /\ run' = [NoRun EXCEPT !.pc = IF tasks = << >> THEN "idle" ELSE "tasks",
                            !.rest = tasks, !.selected = Len(tasks),
                            !.yes = yes, !.dry_run = dry_run, !.calls = <<"clear">>]
    /\ ret' = [NoRet("apply") EXCEPT !.had = Keys(staging_map)]
    /\ UNCHANGED <<handleVars, touched, heap, doc_ref, out>>

\* cli.py 86-122: the Plan is cleared; a run without tasks and a dry run
\* return here, any other run goes on to its tasks.
apply_start(tasks, yes, dry_run) ==
    /\ run.pc = "idle"
    /\ run_reset
    /\ run' = [NoRun EXCEPT !.pc = IF tasks = << >> \/ dry_run THEN "idle" ELSE "tasks",
                            !.rest = IF dry_run THEN << >> ELSE tasks,
                            !.selected = Len(tasks),
                            !.yes = yes, !.dry_run = dry_run, !.calls = <<"clear">>]
    /\ ret' = [NoRet("apply") EXCEPT !.had = Keys(staging_map)]
    /\ UNCHANGED <<handleVars, touched, heap, doc_ref, out>>

\* Variant of apply_task that goes on to the next task after one raised.
apply_task_goes_on ==
    /\ run.pc = "tasks"
    /\ run.rest # << >>
    /\ LET func == Head(run.rest)
       IN  IF func.kind = "stage"
           THEN /\ plan_stage(func.path, func.text)
                /\ disk' = disk
                /\ restaged' = IF func.path \in DOMAIN last_staged
                                  /\ last_staged[func.path] # func.text
                               THEN restaged \cup {func.path} ELSE restaged
                /\ run' = [run EXCEPT !.rest = Tail(@), !.invoked = @ + 1]
                /\ ret' = NoRet("apply")
           ELSE IF func.kind = "write"
           THEN /\ disk' = write_text(disk, func.path, func.text)
                /\ UNCHANGED <<planVars, histVars>>
                /\ run' = [run EXCEPT !.rest = Tail(@), !.invoked = @ + 1]
                /\ ret' = NoRet("apply")
           ELSE /\ UNCHANGED <<disk, planVars, histVars>>
                /\ run' = [run EXCEPT !.rest = Tail(@), !.invoked = @ + 1, !.failed = TRUE]
                /\ ret' = NoRet("apply")
    /\ UNCHANGED <<handleVars, touched, heap, doc_ref, out>>

\* cli.py 123-131: the next task is invoked; when it raises, the Plan is
\* rolled back and the run returns.
apply_task ==
    /\ run.pc = "tasks"
    /\ run.rest # << >>
    /\ LET func == Head(run.rest)
       IN  IF func.kind = "stage"
           THEN /\ plan_stage(func.path, func.text)
                /\ disk' = disk
                /\ restaged' = IF func.path \in DOMAIN last_staged
                                  /\ last_staged[func.path] # func.text
                               THEN restaged \cup {func.path} ELSE restaged
                /\ run' = [run EXCEPT !.rest = Tail(@), !.invoked = @ + 1]
                /\ ret' = NoRet("apply")
           ELSE IF func.kind = "write"
           THEN /\ disk' = write_text(disk, func.path, func.text)
                /\ UNCHANGED <<planVars, histVars>>
                /\ run' = [run EXCEPT !.rest = Tail(@), !.invoked = @ + 1]
                /\ ret' = NoRet("apply")
           ELSE /\ run_reset
                /\ run' = [run EXCEPT !.rest = << >>, !.invoked = @ + 1,
                                      !.failed = TRUE, !.pc = "idle",
                                      !.calls = Append(@, "rollback")]
                /\ ret' = [NoRet("apply") EXCEPT !.had = Keys(staging_map)]
    /\ UNCHANGED <<handleVars, touched, heap, doc_ref, out>>

\* cli.py 133-152 and 171-173: after the last task, a run that staged
\* nothing returns, and so does one whose diff summary is empty; with yes the
\* Plan is committed; otherwise the run prompts.
apply_preview ==
    /\ run.pc = "tasks"
    /\ run.rest = << >>
    /\ IF staging_map = << >> \/ diff_summary(staging_map, original_contents) = << >>
       THEN /\ UNCHANGED <<disk, planVars, histVars>>
            /\ run' = [run EXCEPT !.pc = "idle"]
            /\ ret' = NoRet("apply")
       ELSE IF run.yes
       THEN /\ run_commit
            /\ run' = [run EXCEPT !.pc = "idle", !.calls = Append(@, "commit")]
            /\ ret' = [NoRet("apply") EXCEPT !.had = Keys(staging_map)]
       ELSE /\ UNCHANGED <<disk, planVars, histVars>>
            /\ run' = [run EXCEPT !.pc = "prompt"]
            /\ ret' = NoRet("apply")
    /\ UNCHANGED <<handleVars, touched, heap, doc_ref, out>>

\* Variant of apply_answer that commits unless the answer is n.
apply_answer_default_yes(response) ==
    /\ run.pc = "prompt"
    /\ IF response = "EOFError"
       THEN /\ UNCHANGED <<disk, planVars, histVars>>
            /\ run' = [run EXCEPT !.pc = "idle", !.answer = response, !.raised = TRUE]
            /\ ret' = NoRet("apply")
       ELSE IF response \in Responses /\ lower(response) # "n"
       THEN /\ run_commit
            /\ run' = [run EXCEPT !.pc = "idle", !.answer = response,
                                  !.calls = Append(@, "commit")]
            /\ ret' = [NoRet("apply") EXCEPT !.had = Keys(staging_map)]
       ELSE /\ run_reset
            /\ run' = [run EXCEPT !.pc = "idle", !.answer = response,
                                  !.calls = Append(@, "rollback")]
            /\ ret' = [NoRet("apply") EXCEPT !.had = Keys(staging_map)]
    /\ UNCHANGED <<handleVars, touched, heap, doc_ref, out>>

\* cli.py 153-167: input() returns an answer, and y or yes in any case commits
\* and any other answer rolls back; KeyboardInterrupt rolls back; any other
\* exception of input() leaves apply with the Plan as it is.
apply_answer(response) ==
    /\ run.pc = "prompt"
    /\ IF response = "EOFError"
       THEN /\ UNCHANGED <<disk, planVars, histVars>>
            /\ run' = [run EXCEPT !.pc = "idle", !.answer = response, !.raised = TRUE]
            /\ ret' = NoRet("apply")
       ELSE IF response \in Responses /\ lower(response) \in {"y", "yes"}
       THEN /\ run_commit
            /\ run' = [run EXCEPT !.pc = "idle", !.answer = response,
                                  !.calls = Append(@, "commit")]
            /\ ret' = [NoRet("apply") EXCEPT !.had = Keys(staging_map)]
       ELSE /\ run_reset
            /\ run' = [run EXCEPT !.pc = "idle", !.answer = response,
                                  !.calls = Append(@, "rollback")]
            /\ ret' = [NoRet("apply") EXCEPT !.had = Keys(staging_map)]
    /\ UNCHANGED <<handleVars, touched, heap, doc_ref, out>>

(* ------------------------------ Handle --------------------------------- *)

\* config.py 95-97: load() raises when the target exists and does not parse.
load_fails(d, h) == exists(d, file_path(h)) /\ ParseFails(read_text(d, file_path(h)))

\* Variant of load_document that keeps the document of a loaded Handle.
load_document_once(d, h) ==
    IF loaded[h] THEN document[h]
    ELSE IF exists(d, file_path(h)) THEN parse(read_text(d, file_path(h))) ELSE EmptyDoc

\* config.py 95-99: the document load() installs when it does not raise.
load_document(d, h) ==
    IF exists(d, file_path(h)) THEN parse(read_text(d, file_path(h))) ELSE EmptyDoc

\* Variant of needs_load that loads on every call.
needs_load_always(ld, h) == TRUE

\* config.py 90: _ensure_loaded calls load() only on a Handle not yet loaded.
needs_load(ld, h) == ~ ld[h]

\* The call's _ensure_loaded raises.
ensure_raises(h) == needs_load(loaded, h) /\ load_fails(disk, h)

\* The document once _ensure_loaded has returned.
ensured(h) == IF needs_load(loaded, h) THEN load_document(disk, h) ELSE document[h]

\* The number of load() calls _ensure_loaded makes.
ensure_loads(h) == IF needs_load(loaded, h) THEN 1 ELSE 0

\* A call whose _ensure_loaded raised: nothing but the report changes.
raise_in(h) ==
    /\ ret' = [NoRet("handle") EXCEPT
                !.nloads = ensure_loads(h), !.raised = TRUE, !.error = "parse"]
    /\ touched' = touched \cup {h}
    /\ UNCHANGED <<disk, handleVars, planVars, histVars, extVars>>

\* The Handle after a call that left doc in it.
handle_becomes(h, doc) ==
    /\ document' = [document EXCEPT ![h] = doc]
    /\ loaded' = [loaded EXCEPT ![h] = TRUE]

\* Variant of load that marks the Handle loaded, with the empty document,
\* before the parse error leaves it.
load_marks_loaded(h) ==
    IF load_fails(disk, h)
    THEN /\ handle_becomes(h, EmptyDoc)
         /\ ret' = [NoRet("load") EXCEPT !.nloads = 1, !.raised = TRUE, !.error = "parse"]
         /\ UNCHANGED <<disk, planVars, histVars, touched, extVars>>
    ELSE /\ handle_becomes(h, load_document(disk, h))
         /\ ret' = [NoRet("load") EXCEPT
                     !.nloads = 1,
                     !.dropped = loaded[h] /\ document[h] # load_document(disk, h)]
         /\ UNCHANGED <<disk, planVars, histVars, touched, extVars>>

\* Variant of load that reads the text staged for the path when there is one.
load_staged(h) ==
    IF file_path(h) \in Keys(staging_map)
    THEN /\ handle_becomes(h, parse(Get(staging_map, file_path(h))))
         /\ ret' = [NoRet("load") EXCEPT !.nloads = 1]
         /\ UNCHANGED <<disk, planVars, histVars, touched, extVars>>
    ELSE IF load_fails(disk, h)
    THEN /\ ret' = [NoRet("load") EXCEPT !.nloads = 1, !.raised = TRUE, !.error = "parse"]
         /\ UNCHANGED <<disk, handleVars, planVars, histVars, touched, extVars>>
    ELSE /\ handle_becomes(h, load_document(disk, h))
         /\ ret' = [NoRet("load") EXCEPT
                     !.nloads = 1,
                     !.dropped = loaded[h] /\ document[h] # load_document(disk, h)]
         /\ UNCHANGED <<disk, planVars, histVars, touched, extVars>>

\* config.py 93-101
load(h) ==
    IF load_fails(disk, h)
    THEN /\ ret' = [NoRet("load") EXCEPT !.nloads = 1, !.raised = TRUE, !.error = "parse"]
         /\ UNCHANGED <<disk, handleVars, planVars, histVars, touched, extVars>>
    ELSE /\ handle_becomes(h, load_document(disk, h))
         /\ ret' = [NoRet("load") EXCEPT
                     !.nloads = 1,
                     !.dropped = loaded[h] /\ document[h] # load_document(disk, h)]
         /\ UNCHANGED <<disk, planVars, histVars, touched, extVars>>

\* config.py 103-106
read(h) ==
    IF ensure_raises(h) THEN raise_in(h)
    ELSE /\ handle_becomes(h, ensured(h))
         /\ ret' = [NoRet("handle") EXCEPT !.nloads = ensure_loads(h), !.doc = ensured(h)]
         /\ touched' = touched \cup {h}
         /\ UNCHANGED <<disk, planVars, histVars, extVars>>

\* config.py 108-116
replace(h, doc) ==
    IF ensure_raises(h) THEN raise_in(h)
    ELSE /\ handle_becomes(h, doc)
         /\ ret' = [NoRet("handle") EXCEPT !.nloads = ensure_loads(h)]
         /\ touched' = touched \cup {h}
         /\ UNCHANGED <<disk, planVars, histVars, extVars>>

\* Variant of Strategies that takes every other name for a known strategy.
StrategiesAny == {"deep", "shallow", "override", "other"}

Strategies == {"deep", "shallow", "override"}

\* config.py 121-130 on flat documents: deep and shallow put every key of the
\* patch over the base, override takes the patch.
merge_doc(base, patch, strategy) ==
    IF strategy = "override" THEN patch
    ELSE [k \in {Key} |-> IF patch[k] # NoValue THEN patch[k] ELSE base[k]]

\* config.py 118-133
merge(h, patch, strategy) ==
    IF ensure_raises(h) THEN raise_in(h)
    ELSE IF strategy \notin Strategies
    THEN /\ handle_becomes(h, ensured(h))
         /\ ret' = [NoRet("handle") EXCEPT
                     !.nloads = ensure_loads(h), !.raised = TRUE, !.error = "strategy"]
         /\ touched' = touched \cup {h}
         /\ UNCHANGED <<disk, planVars, histVars, extVars>>
    ELSE /\ handle_becomes(h, merge_doc(ensured(h), patch, strategy))
         /\ ret' = [NoRet("handle") EXCEPT !.nloads = ensure_loads(h)]
         /\ touched' = touched \cup {h}
         /\ UNCHANGED <<disk, planVars, histVars, extVars>>

\* config.py 142-153 on flat documents: a one-segment path removes its key,
\* a path through a missing or scalar segment removes nothing.
delete_doc(doc, path) ==
    IF path \in {Key} THEN [doc EXCEPT ![path] = NoValue] ELSE doc

DeletePaths == {"a", "b", "a.b"}

\* config.py 135-154
delete(h, path) ==
    IF ensure_raises(h) THEN raise_in(h)
    ELSE /\ handle_becomes(h, delete_doc(ensured(h), path))
         /\ ret' = [NoRet("handle") EXCEPT !.nloads = ensure_loads(h)]
         /\ touched' = touched \cup {h}
         /\ UNCHANGED <<disk, planVars, histVars, extVars>>

\* The arguments of save: no path (None), the empty string, or a path;
\* stage not given (None), True or False.
NoPath == "<None>"

PathArgs == {NoPath, "", "p2"}

StageArgs == {"None", "True", "False"}

\* Variant of save_stage whose default is to stage when a path is given.
save_stage_inverted(path, stage_arg) ==
    IF stage_arg = "None" THEN path # NoPath ELSE stage_arg = "True"

\* config.py 172-173: if stage is None: stage = path is None
save_stage(path, stage_arg) ==
    IF stage_arg = "None" THEN path = NoPath ELSE stage_arg = "True"

\* config.py 176: Path(path) if path else self.file.path
save_target(h, path) == IF path # NoPath /\ path # "" THEN path ELSE file_path(h)

\* config.py 183-189: the parent directories are created, then the text is
\* written.
save_direct(d, target, content) == write_text(mkdir(d, path_parent(target)), target, content)

\* config.py 156-189
save(h, path, stage_arg) ==
    IF ensure_raises(h) THEN raise_in(h)
    ELSE /\ handle_becomes(h, ensured(h))
         /\ ret' = [NoRet("handle") EXCEPT !.nloads = ensure_loads(h)]
         /\ touched' = touched \cup {h}
         /\ UNCHANGED extVars
         /\ IF save_stage(path, stage_arg)
            THEN /\ plan_stage(save_target(h, path), dump(ensured(h)))
                 /\ disk' = disk
                 /\ restaged' = restaged
            ELSE /\ disk' = save_direct(disk, save_target(h, path), dump(ensured(h)))
                 /\ UNCHANGED <<planVars, histVars>>

(* ----------------------- calls on documents in memory ------------------ *)

\* The other variables of the model, which these calls leave alone.
storeVars == <<disk, document, loaded, staging_map, original_contents, ret,
               first_seen, last_staged, first_order, restaged, touched, run>>

\* config.py 56-70
merge_deep(docs) ==
    /\ IF docs = << >>
       THEN /\ heap' = heap
            /\ out' = [NoOut("merge_deep") EXCEPT !.result = Fresh]
       ELSE LET r == merge_each(heap, Head(docs), Tail(docs))
            IN  /\ heap' = r.heap
                /\ out' = [NoOut("merge_deep") EXCEPT !.n = Len(docs), !.result = r.val]
    /\ UNCHANGED <<doc_ref, storeVars>>

\* Variant of dict_update that sets only the keys the mapping lacks.
RECURSIVE dict_update_missing(_, _)
dict_update_missing(n, pn) ==
    IF pn = << >> THEN n
    ELSE dict_update_missing(IF dict_has(n, Head(pn).key) THEN n
                             ELSE dict_set(n, Head(pn).key, Head(pn).val), Tail(pn))

\* dict.update(patch)
RECURSIVE dict_update(_, _)
dict_update(n, pn) ==
    IF pn = << >> THEN n
    ELSE dict_update(dict_set(n, Head(pn).key, Head(pn).val), Tail(pn))

\* config.py 118-133 on a loaded Handle
merge_loaded(patch, strategy) ==
    /\ IF strategy = "deep"
       THEN LET r == value_strategy(heap, doc_ref, patch)
            IN  /\ heap' = r.heap
                /\ doc_ref' = r.val
                /\ out' = [NoOut("merge") EXCEPT !.n = 1, !.strategy = strategy]
       ELSE IF strategy = "shallow"
       THEN /\ IF type_of(doc_ref) = "dict"
               THEN /\ heap' = [heap EXCEPT ![doc_ref] = dict_update(heap[doc_ref], heap[patch])]
                    /\ doc_ref' = doc_ref
               ELSE /\ heap' = heap
                    /\ doc_ref' = patch
            /\ out' = [NoOut("merge") EXCEPT !.n = 1, !.strategy = strategy]
       ELSE IF strategy = "override"
       THEN /\ heap' = heap
            /\ doc_ref' = patch
            /\ out' = [NoOut("merge") EXCEPT !.n = 1, !.strategy = strategy]
       ELSE /\ heap' = heap
            /\ doc_ref' = doc_ref
            /\ out' = [NoOut("merge") EXCEPT
                        !.n = 1, !.strategy = strategy, !.raised = TRUE]
    /\ UNCHANGED storeVars

\* base.update(nxt) on objects
RECURSIVE update_items(_, _, _, _)
update_items(hp, base, nxt, ks) ==
    IF ks = << >> THEN hp
    ELSE update_items(put(hp, base, Head(ks), dict_get(hp[nxt], Head(ks))), base, nxt, Tail(ks))

keys_of(n) == [i \in DOMAIN n |-> n[i].key]

\* config.py 118-133 on a loaded TOML Handle: dict.update of a tomlkit
\* document stores items, the other strategies are the ones of every Handle.
toml_merge(patch, strategy) ==
    IF strategy = "shallow" /\ doc_ref \in TomlObjs
    THEN /\ heap' = update_items(heap, doc_ref, patch, keys_of(heap[patch]))
         /\ doc_ref' = doc_ref
         /\ out' = [NoOut("merge") EXCEPT !.n = 1, !.strategy = strategy]
         /\ UNCHANGED storeVars
    ELSE merge_loaded(patch, strategy)

\* config.py 108-112 with TOMLHandle._replace_impl, 205-207: the document
\* is cleared and then updated from doc, which is read after the clear.
toml_replace(doc) ==
    /\ LET cleared == [heap EXCEPT ![doc_ref] = << >>]
       IN  heap' = update_items(cleared, doc_ref, doc, keys_of(cleared[doc]))
    /\ doc_ref' = doc_ref
    /\ out' = NoOut("replace")
    /\ UNCHANGED storeVars

\* config.py 106: document.unwrap() of a tomlkit document builds plain
\* mappings all the way down; dict(document) of a plain dict is a new
\* mapping that holds the values of the document themselves.
read_view(hp, doc) ==
    IF doc \in TomlObjs
    THEN LET top == [i \in DOMAIN hp[doc] |->
                       IF hp[doc][i].val \in Objs THEN Entry(hp[doc][i].key, "vc") ELSE hp[doc][i]]
             sub == IF dict_has(hp[doc], "a") /\ dict_get(hp[doc], "a") \in Objs
                    THEN hp[dict_get(hp[doc], "a")] ELSE << >>
         IN  [hp EXCEPT !["v"] = top, !["vc"] = sub]
    ELSE [hp EXCEPT !["v"] = hp[doc]]

\* config.py 103-106 on a loaded Handle
toml_read ==
    /\ heap' = read_view(heap, doc_ref)
    /\ doc_ref' = doc_ref
    /\ out' = [NoOut("read") EXCEPT !.result = "v"]
    /\ UNCHANGED storeVars

\* The caller changes the mapping read() returned: view[k] = val, or
\* view["a"][k] = val when view["a"] is a mapping.
view_set(nested, k, val) ==
    /\ out.op \in {"read", "view_set"}
    /\ nested => (dict_has(heap["v"], "a") /\ dict_get(heap["v"], "a") \in Objs)
    /\ LET target == IF nested THEN dict_get(heap["v"], "a") ELSE "v"
       IN  heap' = [heap EXCEPT ![target] = dict_set(heap[target], k, val)]
    /\ doc_ref' = doc_ref
    /\ out' = [NoOut("view_set") EXCEPT !.changed = Value(heap', doc_ref) # Value(heap, doc_ref)]
    /\ UNCHANGED storeVars

\* The dotted paths the calls of delete are given.
DottedPaths == {"a", "b", "a.a", "a.b", "b.a", "a.a.b"}

\* path.split(".")
split(path) ==
    IF path = "a" THEN <<"a">>
    ELSE IF path = "b" THEN <<"b">>
    ELSE IF path = "a.a" THEN <<"a", "a">>
    ELSE IF path = "a.b" THEN <<"a", "b">>
    ELSE IF path = "b.a" THEN <<"b", "a">>
    ELSE <<"a", "a", "b">>

\* Variant of delete_path that removes the key the walk stopped at.
RECURSIVE delete_path_stopped(_, _, _)
delete_path_stopped(hp, obj, parts) ==
    IF type_of(obj) # "dict" THEN hp
    ELSE IF Len(parts) = 1 \/ ~ dict_has(hp[obj], Head(parts))
         \/ type_of(dict_get(hp[obj], Head(parts))) # "dict"
    THEN [hp EXCEPT ![obj] = dict_del(hp[obj], Head(parts))]
    ELSE delete_path_stopped(hp, dict_get(hp[obj], Head(parts)), Tail(parts))

\* config.py 143-153: walk the segments but the last through mappings that
\* hold them; a walk that ends early deletes nothing, a walk that passes
\* every segment deletes the last one from the mapping reached, if it is a
\* mapping and holds it.
RECURSIVE delete_path(_, _, _)
delete_path(hp, obj, parts) ==
    IF Len(parts) = 1
    THEN IF type_of(obj) = "dict" /\ dict_has(hp[obj], Head(parts))
         THEN [hp EXCEPT ![obj] = dict_del(hp[obj], Head(parts))]
         ELSE hp
    ELSE IF type_of(obj) = "dict" /\ dict_has(hp[obj], Head(parts))
         THEN delete_path(hp, dict_get(hp[obj], Head(parts)), Tail(parts))
         ELSE hp

\* Variant of delete_each that stops after the first path.
delete_each_first(hp, obj, paths) ==
    IF paths = << >> THEN hp ELSE delete_path(hp, obj, split(Head(paths)))

\* config.py 142: for path in paths
RECURSIVE delete_each(_, _, _)
delete_each(hp, obj, paths) ==
    IF paths = << >> THEN hp
    ELSE delete_each(delete_path(hp, obj, split(Head(paths))), obj, Tail(paths))

\* config.py 135-154 on a loaded Handle
delete_loaded(paths) ==
    /\ heap' = delete_each(heap, doc_ref, paths)
    /\ doc_ref' = doc_ref
    /\ out' = [NoOut("delete") EXCEPT
                !.n = Len(paths),
                !.changed = Value(heap', doc_ref) # Value(heap, doc_ref)]
    /\ UNCHANGED storeVars

\* The mappings a parse or a caller builds: key a holds nothing, a plain
\* value or the nested mapping, key b nothing or a number.
RootEntries(o) ==
    { (IF a = "" THEN << >> ELSE << Entry("a", a) >>) \o (IF b = "" THEN << >> ELSE << Entry("b", b) >>)
      : a \in {""} \cup Plain \cup {child(o)}, b \in {"", "1"} }

NestedEntries ==
    { (IF a = "" THEN << >> ELSE << Entry("a", a) >>) \o (IF b = "" THEN << >> ELSE << Entry("b", b) >>)
      : a \in {""} \cup Numbers, b \in {"", "1"} }

\* A mapping with the mapping nested in it; the nested one has entries only
\* when key a holds it.
Trees(o) ==
    UNION { { [root |-> re, nested |-> ne]
              : ne \in IF dict_has(re, "a") /\ dict_get(re, "a") = child(o)
                       THEN NestedEntries ELSE {<< >>} }
            : re \in RootEntries(o) }

NoTree == [root |-> << >>, nested |-> << >>]

\* The mappings a later patch is drawn from: key a alone, holding the number
\* 2 or a nested mapping that holds it.
LateTrees(o) ==
    { t \in Trees(o) : /\ ~ dict_has(t.root, "b")
                       /\ dict_has(t.root, "a")
                       /\ \/ dict_get(t.root, "a") = "2"
                          \/ t.nested = << Entry("a", "2") >> }

parent(o) == IF o = "dc" THEN "d" ELSE IF o = "pc" THEN "p" ELSE IF o = "qc" THEN "q" ELSE "r"

\* The memory holding the tree t[o] for every o.
HeapOf(t) ==
    [o \in Objs |-> IF o \in Roots THEN t[o].root
                    ELSE IF o \in Nested THEN t[parent(o)].nested
                    ELSE << >>]

(* ------------------------------ TextHandle ----------------------------- *)
\* A text file is the sequence of its lines; NoEol after the last line says
\* that the file does not end with a newline.
NoEol == "<no newline at end of file>"

TextLines == {"x", "y"}

\* The contents of the text files: at most two lines.
TextContents ==
    {<< >>} \cup {<<l>> : l \in TextLines} \cup {<<l, NoEol>> : l \in TextLines}
    \cup {<<k, l>> : k \in TextLines, l \in TextLines}

\* text.py 18-20: content.splitlines(keepends=False) if content else []
text_parse(content) == SelectSeq(content, LAMBDA l : l # NoEol)

\* text.py 22-24: "\n".join(self.lines) + ("\n" if self.lines else "")
text_dump(lines) == lines

\* The attributes an instance of TextHandle has: the ones BaseHandle
\* (core.py 71-133) and TextHandle (text.py 10-88) set or define.
TextHandleAttrs ==
    {"file", "document", "_loaded", "lines",
     "_parse", "_dump", "_ensure_loaded", "load", "read", "replace", "_replace_impl",
     "merge", "present", "absent", "save"}

\* text.py 31-39, after _ensure_loaded
text_lines(h) ==
    IF loaded[h] THEN document[h]
    ELSE IF exists(disk, file_path(h)) THEN text_parse(read_text(disk, file_path(h)))
    ELSE << >>

text_becomes(h, lines) ==
    /\ document' = [document EXCEPT ![h] = lines]
    /\ loaded' = [loaded EXCEPT ![h] = TRUE]

\* text.py 41-46
text_present(h, line) ==
    /\ text_becomes(h, IF \E i \in DOMAIN text_lines(h) : text_lines(h)[i] = line
                       THEN text_lines(h) ELSE Append(text_lines(h), line))
    /\ ret' = NoRet("handle")
    /\ UNCHANGED <<disk, planVars, histVars, touched, extVars>>

\* text.py 48-53
text_absent(h, line) ==
    /\ text_becomes(h, SelectSeq(text_lines(h), LAMBDA l : l # line))
    /\ ret' = NoRet("handle")
    /\ UNCHANGED <<disk, planVars, histVars, touched, extVars>>

\* text.py 55-88: the Handle is loaded; without a path the target is
\* self.path, and the content is self._get_serialized_content(): reading an
\* attribute the instance does not have raises AttributeError, before
\* anything is staged or written.
text_save(h, path, stage_arg) ==
    /\ text_becomes(h, text_lines(h))
    /\ UNCHANGED <<touched, extVars>>
    /\ IF (path = NoPath \/ path = "") /\ "path" \notin TextHandleAttrs
       THEN /\ ret' = [NoRet("handle") EXCEPT !.raised = TRUE, !.error = "attribute"]
            /\ UNCHANGED <<disk, planVars, histVars>>
       ELSE IF "_get_serialized_content" \notin TextHandleAttrs
       THEN /\ ret' = [NoRet("handle") EXCEPT !.raised = TRUE, !.error = "attribute"]
            /\ UNCHANGED <<disk, planVars, histVars>>
       ELSE IF save_stage(path, stage_arg)
       THEN /\ plan_stage(save_target(h, path), text_dump(text_lines(h)))
            /\ disk' = disk
            /\ restaged' = restaged
            /\ ret' = NoRet("handle")
       ELSE /\ disk' = write_text(disk, save_target(h, path), text_dump(text_lines(h)))
            /\ ret' = NoRet("handle")
            /\ UNCHANGED <<planVars, histVars>>

\* A TextHandle over p1, which holds a text or is missing.
InitText ==
    /\ disk \in [Paths -> TextContents \cup {None}]
    /\ disk["p2"] = None
    /\ document = [h \in Handles |-> << >>]
    /\ loaded = [h \in Handles |-> FALSE]
    /\ staging_map = << >>
    /\ original_contents = EmptyMap
    /\ ret = NoRet("init")
    /\ first_seen = EmptyMap
    /\ last_staged = EmptyMap
    /\ first_order = << >>
    /\ restaged = {}
    /\ touched = {}
    /\ heap = EmptyHeap
    /\ doc_ref = "d"
    /\ out = NoOut("init")
    /\ run = NoRun

NextText ==
    \/ \E h \in Handles, line \in TextLines : text_present(h, line)
    \/ \E h \in Handles, line \in TextLines : text_absent(h, line)
    \/ \E h \in Handles, path \in PathArgs, stg \in StageArgs : text_save(h, path, stg)
    \/ \E c \in TextContents : direct_write("p1", c)

SpecText == InitText /\ [][NextText]_vars

(* -------------------------- TOMLHandle, YAMLHandle --------------------- *)
\* A text is a sequence of lines; a line is a comment or holds key a with a
\* value, in TOML with or without blanks around the sign, and an optional
\* comment behind it.

\* A TOML Handle over p1 and a YAML Handle over p2.
FormatHandles == {"toml", "yaml"}

format_path(h) == IF h = "toml" THEN "p1" ELSE "p2"

\* The parts of a line: a comment line has no key.
Item(key, eq, val, comment) == [key |-> key, eq |-> eq, val |-> val, comment |-> comment]

CommentLine == Item("", "", "", "# c")

TomlItems ==
    { Item("a", eq, val, comment) : eq \in {" = ", "="}, val \in Numbers, comment \in {"", "  # c"} }
    \cup {CommentLine}

YamlItems ==
    { Item("a", ": ", val, comment) : val \in Numbers, comment \in {"", "  # c"} }
    \cup {CommentLine}

\* The line an item is written as.
item_line(item) == item.key \o item.eq \o item.val \o item.comment

\* The texts of at most two lines each format can hold, and one it rejects.
TextsOver(items) ==
    {<< >>} \cup {<<item_line(i)>> : i \in items}
    \cup {<<item_line(CommentLine), item_line(i)>> : i \in items \ {CommentLine}}

TomlTexts == TextsOver(TomlItems)
YamlTexts == TextsOver(YamlItems)

FormatTexts(h) == IF h = "toml" THEN TomlTexts ELSE YamlTexts

\* A document in memory: a plain dict, or the format's own document type,
\* which keeps what the parser read beside the keys and values.
Document(type, body) == [type |-> type, body |-> body]

PlainDict == Document("dict", << >>)

\* config.py 199, tomlkit.parse(content): every item with its blanks and
\* comments.
toml_parse(content) ==
    Document("TOMLDocument",
             [n \in DOMAIN content |-> CHOOSE i \in TomlItems : item_line(i) = content[n]])

\* config.py 202, tomlkit.dumps(document): a TOML document is written as
\* it was read, a plain dict with one line per key.
toml_dump(doc) ==
    IF doc.type = "TOMLDocument"
    THEN [n \in DOMAIN doc.body |-> item_line(doc.body[n])]
    ELSE [n \in DOMAIN doc.body |->
            item_line(Item(doc.body[n].key, " = ", doc.body[n].val, ""))]

\* config.py 218, self.yaml.load(content) or {}: a text without a key has
\* no document, and the plain empty dict stands in for it.
yaml_parse(content) ==
    LET body == [n \in DOMAIN content |-> CHOOSE i \in YamlItems : item_line(i) = content[n]]
    IN  IF \A n \in DOMAIN body : body[n].key = ""
        THEN PlainDict
        ELSE Document("CommentedMap", body)

\* config.py 220-223, self.yaml.dump(self.document, stream): the empty
\* mapping is written in flow style.
yaml_dump(doc) ==
    IF \A n \in DOMAIN doc.body : doc.body[n].key = ""
    THEN << "{}" >>
    ELSE [n \in DOMAIN doc.body |->
            item_line(Item(doc.body[n].key, IF doc.body[n].key = "" THEN "" ELSE ": ",
                           doc.body[n].val, doc.body[n].comment))]

format_parse(h, content) == IF h = "toml" THEN toml_parse(content) ELSE yaml_parse(content)

format_dump(h, doc) == IF h = "toml" THEN toml_dump(doc) ELSE yaml_dump(doc)

\* config.py 94-99 on the format's Handle
format_loaded(d, h) ==
    IF exists(d, format_path(h)) THEN format_parse(h, read_text(d, format_path(h)))
    ELSE PlainDict

format_load_fails(d, h) == exists(d, format_path(h)) /\ read_text(d, format_path(h)) = Malformed

\* config.py 93-101
format_load(h) ==
    IF format_load_fails(disk, h)
    THEN /\ ret' = [NoRet("load") EXCEPT !.nloads = 1, !.raised = TRUE, !.error = "parse"]
         /\ UNCHANGED <<disk, handleVars, planVars, histVars, touched, extVars>>
    ELSE /\ document' = [document EXCEPT ![h] = format_loaded(disk, h)]
         /\ loaded' = [loaded EXCEPT ![h] = TRUE]
         /\ ret' = [NoRet("load") EXCEPT !.nloads = 1]
         /\ UNCHANGED <<disk, planVars, histVars, touched, extVars>>

\* config.py 108-116 with TOMLHandle._replace_impl (205-207), which clears
\* and refills the document it has, and the default (114-116), which takes
\* the new dict: replace({"a": val})
format_replace(h, val) ==
    IF ~ loaded[h] /\ format_load_fails(disk, h)
    THEN /\ ret' = [NoRet("handle") EXCEPT !.nloads = 1, !.raised = TRUE, !.error = "parse"]
         /\ UNCHANGED <<disk, handleVars, planVars, histVars, touched, extVars>>
    ELSE LET before == IF loaded[h] THEN document[h] ELSE format_loaded(disk, h)
         IN  /\ document' = [document EXCEPT ![h] =
                    Document(IF h = "toml" THEN before.type ELSE "dict",
                             << Item("a", IF h = "toml" THEN " = " ELSE ": ", val, "") >>)]
             /\ loaded' = [loaded EXCEPT ![h] = TRUE]
             /\ ret' = [NoRet("handle") EXCEPT !.nloads = IF loaded[h] THEN 0 ELSE 1]
             /\ UNCHANGED <<disk, planVars, histVars, touched, extVars>>

\* config.py 156-182: save() stages the serialized document under the
\* Handle's own path.
format_save(h) ==
    IF ~ loaded[h] /\ format_load_fails(disk, h)
    THEN /\ ret' = [NoRet("handle") EXCEPT !.nloads = 1, !.raised = TRUE, !.error = "parse"]
         /\ UNCHANGED <<disk, handleVars, planVars, histVars, touched, extVars>>
    ELSE LET doc == IF loaded[h] THEN document[h] ELSE format_loaded(disk, h)
         IN  /\ document' = [document EXCEPT ![h] = doc]
             /\ loaded' = [loaded EXCEPT ![h] = TRUE]
             /\ plan_stage(format_path(h), format_dump(h, doc))
             /\ disk' = disk
             /\ restaged' = IF format_path(h) \in DOMAIN last_staged
                               /\ last_staged[format_path(h)] # format_dump(h, doc)
                            THEN restaged \cup {format_path(h)} ELSE restaged
             /\ ret' = [NoRet("handle") EXCEPT !.nloads = IF loaded[h] THEN 0 ELSE 1]
             /\ UNCHANGED <<touched, extVars>>

\* A TOML file and a YAML file, each missing or holding a text, and the two
\* Handles constructed over them.
InitFormat ==
    /\ disk \in [Paths -> UNION {FormatTexts(h) : h \in FormatHandles} \cup {Malformed, None}]
    /\ \A h \in FormatHandles : disk[format_path(h)] \in FormatTexts(h) \cup {Malformed, None}
    /\ document = [h \in FormatHandles |-> PlainDict]
    /\ loaded = [h \in FormatHandles |-> FALSE]
    /\ staging_map = << >>
    /\ original_contents = EmptyMap
    /\ ret = NoRet("init")
    /\ first_seen = EmptyMap
    /\ last_staged = EmptyMap
    /\ first_order = << >>
    /\ restaged = {}
    /\ touched = {}
    /\ heap = EmptyHeap
    /\ doc_ref = "d"
    /\ out = NoOut("init")
    /\ run = NoRun

NextFormat ==
    \/ \E h \in FormatHandles : format_load(h)
    \/ \E h \in FormatHandles, val \in Numbers : format_replace(h, val)
    \/ \E h \in FormatHandles : format_save(h)
    \/ get_diff_summary
    \/ rollback

SpecFormat == InitFormat /\ [][NextFormat]_vars

\* A Handle over a file of the working directory, and a directory sub that
\* exists or not, with a file in it or not.
InitDir ==
    /\ disk \in [{"p1", "sub", "sub/p3"} -> Contents \cup {None, Dir}]
    /\ disk["p1"] # Dir
    /\ disk["sub"] \in {None, Dir}
    /\ disk["sub/p3"] # Dir
    /\ disk["sub"] = None => disk["sub/p3"] = None
    /\ document = [h \in Handles |-> EmptyDoc]
    /\ loaded = [h \in Handles |-> FALSE]
    /\ staging_map = << >>
    /\ original_contents = EmptyMap
    /\ ret = NoRet("init")
    /\ first_seen = EmptyMap
    /\ last_staged = EmptyMap
    /\ first_order = << >>
    /\ restaged = {}
    /\ touched = {}
    /\ heap = EmptyHeap
    /\ doc_ref = "d"
    /\ out = NoOut("init")
    /\ run = NoRun

\* plan.py 55-61 over directories: commit writes every entry when the
\* directory of each exists, and raises on the first entry whose directory
\* is missing.
commit_in_dirs ==
    IF \A i \in DOMAIN staging_map : can_write(disk, staging_map[i].path)
    THEN commit
    ELSE commit_raises(CHOOSE i \in DOMAIN staging_map :
                          /\ ~ can_write(disk, staging_map[i].path)
                          /\ \A j \in 1..(i - 1) : can_write(disk, staging_map[j].path),
                       FALSE)

NextDir ==
    \/ \E h \in Handles : load(h)
    \/ \E h \in Handles, patch \in Docs : merge(h, patch, "deep")
    \/ \E h \in Handles, path \in {NoPath, "sub/p3"}, stg \in StageArgs : save(h, path, stg)
    \/ commit_in_dirs
    \/ rollback

SpecDir == InitDir /\ [][NextDir]_vars

\* Two Handles constructed over the same file.
TwoHandles == {"h1", "h2"}

InitTwo ==
    /\ disk \in [Paths -> Contents \cup {None}]
    /\ disk["p2"] = None
    /\ document = [h \in TwoHandles |-> EmptyDoc]
    /\ loaded = [h \in TwoHandles |-> FALSE]
    /\ staging_map = << >>
    /\ original_contents = EmptyMap
    /\ ret = NoRet("init")
    /\ first_seen = EmptyMap
    /\ last_staged = EmptyMap
    /\ first_order = << >>
    /\ restaged = {}
    /\ touched = {}
    /\ heap = EmptyHeap
    /\ doc_ref = "d"
    /\ out = NoOut("init")
    /\ run = NoRun

NextTwo ==
    \/ \E h \in TwoHandles : load(h)
    \/ \E h \in TwoHandles, patch \in Docs : merge(h, patch, "deep")
    \/ \E h \in TwoHandles : delete(h, Key)
    \/ \E h \in TwoHandles : save(h, NoPath, "None")
    \/ commit

SpecTwo == InitTwo /\ [][NextTwo]_vars

Init ==
    /\ disk \in [Paths -> Contents \cup {None}]
    /\ disk["p2"] = None
    /\ document = [h \in Handles |-> EmptyDoc]
    /\ loaded = [h \in Handles |-> FALSE]
    /\ staging_map = << >>
    /\ original_contents = EmptyMap
    /\ ret = NoRet("init")
    /\ first_seen = EmptyMap
    /\ last_staged = EmptyMap
    /\ first_order = << >>
    /\ restaged = {}
    /\ touched = {}
    /\ heap = EmptyHeap
    /\ doc_ref = "d"
    /\ out = NoOut("init")
    /\ run = NoRun

Next ==
    \/ \E h \in Handles : load(h)
    \/ \E h \in Handles : read(h)
    \/ \E h \in Handles, doc \in Docs : replace(h, doc)
    \/ \E h \in Handles, patch \in Docs, strategy \in Strategies \cup {"other"} :
          merge(h, patch, strategy)
    \/ \E h \in Handles, path \in DeletePaths : delete(h, path)
    \/ \E h \in Handles, path \in PathArgs, stg \in StageArgs : save(h, path, stg)
    \/ \E h \in Handles, c \in Contents : direct_write(file_path(h), c)
    \/ get_diff_summary
    \/ preview
    \/ commit
    \/ rollback
    \/ clear

Spec == Init /\ [][Next]_vars

NextPlan ==
    \/ \E p \in Paths, c \in Contents : stage(p, c)
    \/ \E p \in Paths, c \in Contents : direct_write(p, c)
    \/ get_diff_summary
    \/ preview
    \/ commit
    \/ rollback
    \/ clear

SpecPlan == InitPlan /\ [][NextPlan]_vars

\* Staging and committing with writes that can fail.
NextCommit ==
    \/ \E p \in Paths, c \in Contents : stage(p, c)
    \/ commit
    \/ \E i \in 1..Cardinality(Paths), torn \in BOOLEAN : commit_raises(i, torn)

SpecCommit == InitPlan /\ [][NextCommit]_vars

\* Real files holding a task's text or missing, an empty Plan, no run yet.
InitApply ==
    /\ InitPlan
    /\ \A p \in Paths : disk[p] \in TaskTexts \cup {None}

\* Runs of apply, one after the other; between two runs other code stages a
\* text or commits the Plan.
NextApply ==
    \/ \E tasks \in TaskLists, yes \in BOOLEAN, dry_run \in BOOLEAN :
          apply_start(tasks, yes, dry_run)
    \/ apply_task
    \/ apply_preview
    \/ \E response \in Responses \cup Interrupts : apply_answer(response)
    \/ run.pc = "idle" /\ \E c \in TaskTexts : stage("p1", c)
    \/ run.pc = "idle" /\ commit

SpecApply == InitApply /\ [][NextApply]_vars

\* The store untouched, for the specifications of documents in memory.
InitStore ==
    /\ disk = [p \in Paths |-> None]
    /\ document = [h \in Handles |-> EmptyDoc]
    /\ loaded = [h \in Handles |-> FALSE]
    /\ staging_map = << >>
    /\ original_contents = EmptyMap
    /\ ret = NoRet("init")
    /\ first_seen = EmptyMap
    /\ last_staged = EmptyMap
    /\ first_order = << >>
    /\ restaged = {}
    /\ touched = {}

\* The mappings without key b, in them or in the mapping nested in them.
TreesA(o) == {t \in Trees(o) : ~ dict_has(t.root, "b") /\ ~ dict_has(t.nested, "b")}

\* A TOML Handle that loaded an existing file (the document tomlkit parsed)
\* or a missing one (the plain empty dict), and a mapping the caller holds.
InitRead ==
    /\ InitStore
    /\ \E tt \in Trees("t") \cup {NoTree}, tp \in Trees("p") :
          /\ heap = [HeapOf([o \in Roots |-> IF o = "p" THEN tp ELSE NoTree])
                        EXCEPT !["t"] = tt.root, !["tc"] = tt.nested]
          /\ doc_ref \in {"t"} \cup (IF tt = NoTree THEN {"d"} ELSE {})
    /\ out = NoOut("init")
    /\ run = NoRun

NextRead ==
    \/ \E strategy \in Strategies : toml_merge("p", strategy)
    \/ toml_replace("p")
    \/ toml_read
    \/ \E nested \in BOOLEAN, k \in {"a", "b"}, val \in Numbers : view_set(nested, k, val)

SpecRead == InitRead /\ [][NextRead]_vars

\* A TOML Handle whose document holds, under key a, nothing, a number, an
\* array or a table with an array; and two patches with an array of one to
\* three items under key a or in the mapping under it: a plain dict and a
\* TOML document.
ArrayTrees(o) ==
    { [root |-> << Entry("a", v) >>, nested |-> << >>] : v \in FlatLists }
    \cup { [root |-> << Entry("a", child(o)) >>, nested |-> << Entry("a", v) >>] : v \in FlatLists }

InitArray ==
    /\ InitStore
    /\ \E tt \in ArrayTrees("t") \cup {NoTree, [root |-> << Entry("a", "1") >>, nested |-> << >>]},
          tp \in ArrayTrees("p"), tu \in ArrayTrees("u") :
          heap = [HeapOf([o \in Roots |-> IF o = "p" THEN tp ELSE NoTree])
                    EXCEPT !["t"] = tt.root, !["tc"] = tt.nested,
                           !["u"] = tu.root, !["uc"] = tu.nested]
    /\ doc_ref = "t"
    /\ out = NoOut("init")
    /\ run = NoRun

NextArray ==
    \/ \E patch \in {"p", "u"} : toml_merge(patch, "deep")
    \/ toml_read

SpecArray == InitArray /\ [][NextArray]_vars

\* Three mappings a caller holds and a Handle that loaded a missing file.
InitMerge ==
    /\ InitStore
    /\ \E tp \in TreesA("p"), tq \in TreesA("q"), tr \in LateTrees("r") :
          heap = HeapOf([o \in Roots |-> IF o = "p" THEN tp ELSE IF o = "q" THEN tq
                                        ELSE IF o = "r" THEN tr ELSE NoTree])
    /\ doc_ref = "d"
    /\ out = NoOut("init")
    /\ run = NoRun

\* The sequences of distinct mappings merge_deep is given.
DocLists ==
    {<< >>} \cup {<<x>> : x \in {"p", "q", "r"}}
    \cup {ds \in {"p", "q", "r"} \X {"p", "q", "r"} : ds[1] # ds[2]}
    \cup {<<"p", "q", "r">>, <<"p", "r", "q">>}

NextMerge ==
    \/ \E docs \in DocLists : merge_deep(docs)
    \/ merge_loaded("p", "deep")

SpecMerge == InitMerge /\ [][NextMerge]_vars

\* A Handle that has loaded its document, a mapping or a list, and the
\* patch a caller holds.
InitDoc ==
    /\ InitStore
    /\ \E td \in Trees("d") \cup {NoTree}, tp \in Trees("p") :
          /\ heap = HeapOf([o \in Roots |-> IF o = "d" THEN td ELSE IF o = "p" THEN tp
                                           ELSE NoTree])
          /\ doc_ref \in {"d"} \cup (IF td = NoTree THEN {"[9]"} ELSE {})
    /\ out = NoOut("init")
    /\ run = NoRun

PathLists == {<<x>> : x \in DottedPaths} \cup {<<x, y>> : x \in DottedPaths, y \in {"a.a", "b"}}

NextDoc ==
    \/ \E patch \in {"p"}, strategy \in Strategies \cup {"other"} : merge_loaded(patch, strategy)
    \/ \E paths \in PathLists : delete_loaded(paths)

SpecDoc == InitDoc /\ [][NextDoc]_vars

(* ------------------------------ claims --------------------------------- *)

\* C1: in every reachable state of the Plan, every path that has an entry in
\* the staged map also has an entry in the original map.
C1_StagedHasOriginal == Keys(staging_map) \subseteq DOMAIN original_contents

\* Both paths are staged, the second by the call just made.
C1_Witness == ret.op = "stage" /\ Keys(staging_map) = Paths

\* C2: within one transaction original[path] is set once, at the first stage
\* of the path, to the real content at that moment (None if the path does not
\* exist); no later stage call and no later change of real storage changes
\* it, and entries leave the map only when the whole map is reset.
C2_OriginalSetOnce ==
    [][ /\ \A p \in DOMAIN original_contents \cap DOMAIN original_contents' :
              original_contents'[p] = original_contents[p]
        /\ \A p \in DOMAIN original_contents' \ DOMAIN original_contents :
              /\ original_contents'[p] = disk[p]
              /\ p \notin Keys(staging_map)
              /\ p \in Keys(staging_map')
        /\ \/ DOMAIN original_contents \subseteq DOMAIN original_contents'
           \/ /\ original_contents' = EmptyMap
              /\ ret'.op \in {"commit", "rollback", "clear"}
      ]_vars

\* A path was staged, real storage changed under it, and it was staged again
\* with another text: the recorded original is no longer the real content.
C2_Witness ==
    /\ ret.op = "stage"
    /\ \E p \in restaged : original_contents[p] # disk[p] /\ original_contents[p] # None

\* C3: preview() returns exactly one entry per staged path, holding the text of
\* the most recent stage call for that path, also for a path whose staged
\* text equals its original content.
C3_PreviewLatest ==
    ret.op = "preview" =>
        /\ DOMAIN ret.view = DOMAIN last_staged
        /\ \A p \in DOMAIN ret.view : ret.view[p] = last_staged[p]

\* preview() answered with two paths, one re-staged with another text and one
\* whose staged text is its original content.
C3_Witness ==
    /\ ret.op = "preview"
    /\ DOMAIN ret.view = Paths
    /\ restaged # {}
    /\ \E p \in DOMAIN ret.view : ret.view[p] = original_contents[p]

\* C4: commit() writes the latest staged text of every staged path to real
\* storage, leaves every other real file unchanged, and leaves both maps empty.
C4_CommitWritesAll ==
    [][ ret'.op = "commit" =>
          /\ \A p \in DOMAIN last_staged : disk'[p] = last_staged[p]
          /\ \A p \in Paths \ DOMAIN last_staged : disk'[p] = disk[p]
          /\ staging_map' = << >>
          /\ original_contents' = EmptyMap
      ]_vars

\* commit() returned after writing both staged paths.
C4_Witness == ret.op = "commit" /\ ret.had = Paths

\* C5: rollback() and clear() empty both maps and change no real file; a
\* preview() taken then is empty.
C5_RollbackDiscards ==
    [][ ret'.op \in {"rollback", "clear"} =>
          /\ disk' = disk
          /\ staging_map' = << >>
          /\ original_contents' = EmptyMap
          /\ preview_of(staging_map') = EmptyMap
      ]_vars

\* rollback() returned after discarding staged entries.
C5_Witness ==
    /\ ret.op = "rollback"
    /\ ret.had # {}
    /\ staging_map = << >>

\* A call of save whose stage argument is true, or is not given with no path.
StagedSave(h, path, stage_arg) ==
    /\ save(h, path, stage_arg)
    /\ stage_arg = "True" \/ (stage_arg = "None" /\ path = NoPath)

\* A call of save whose stage argument is false, or is not given with a path.
UnstagedSave(h, path, stage_arg) ==
    /\ save(h, path, stage_arg)
    /\ stage_arg = "False" \/ (stage_arg = "None" /\ path # NoPath)

\* C6: a staged save never modifies real storage: Handle.save with stage true
\* (the default without a path), preview and get_diff_summary leave every real
\* file unchanged; real storage changes only through commit() or a save with
\* stage false (the Handle's own or another writer's).
C6_StagedSaveKeepsStorage ==
    [][ /\ \A h \in Handles, path \in PathArgs, stg \in StageArgs :
              disk' = disk \/ ~ StagedSave(h, path, stg)
        /\ ret'.op \in {"preview", "get_diff_summary"} => disk' = disk
        /\ disk' # disk =>
              \/ ret'.op \in {"commit", "write"}
              \/ \E h \in Handles, path \in PathArgs, stg \in StageArgs :
                    UnstagedSave(h, path, stg)
      ]_vars

\* The Handle's document is staged for its file and real storage still holds
\* another text there.
C6_Witness ==
    /\ ret.op = "handle"
    /\ \E h \in Handles :
          /\ loaded[h]
          /\ file_path(h) \in Keys(staging_map)
          /\ Get(staging_map, file_path(h)) = dump(document[h])
          /\ Get(staging_map, file_path(h)) # disk[file_path(h)]
          /\ original_contents[file_path(h)] = disk[file_path(h)]

\* The original content as the claims read it: a missing file is the empty text.
AsText(original) == IF original = None THEN EmptyText ELSE original

\* The diff blocks of the staged paths whose latest staged text differs from
\* the original content, in the order the paths were first staged.
RECURSIVE ChangedBlocks(_)
ChangedBlocks(order) ==
    IF order = << >> THEN << >>
    ELSE LET p == Head(order)
         IN  (IF last_staged[p] # AsText(first_seen[p])
              THEN << unified_diff(AsText(first_seen[p]), last_staged[p], p, p) >>
              ELSE << >>)
             \o ChangedBlocks(Tail(order))

\* C7: get_diff_summary() holds a diff block for exactly the staged paths whose
\* staged text differs from the original content, a missing file counting as
\* the empty text; a staged path without effective change contributes nothing.
C7_DiffExactlyChanged ==
    ret.op = "get_diff_summary" => ret.diff = join(ChangedBlocks(first_order))

\* The Plan had every path been staged once, with its latest text, over the
\* real storage found when the path was first staged.
RECURSIVE StagedOnce(_, _, _)
StagedOnce(order, sm, oc) ==
    IF order = << >> THEN [sm |-> sm, oc |-> oc]
    ELSE StagedOnce(Tail(order),
                    stage_memory(sm, Head(order), last_staged[Head(order)]),
                    stage_original(oc, first_seen, Head(order)))

TextsOf(f) == UNION {{f[p][i] : i \in DOMAIN f[p]} : p \in DOMAIN f}

\* C8: when a path is staged several times in one transaction, the summary is
\* the diff between the real content before the first stage and the text of
\* the last stage: the same summary as if only the last text had been staged,
\* and no line of it comes from an intermediate text.
C8_DiffFirstToLast ==
    ret.op = "get_diff_summary" =>
        /\ LET once == StagedOnce(first_order, << >>, EmptyMap)
           IN  ret.diff = diff_summary(once.sm, once.oc)
        /\ \A i \in DOMAIN ret.diff :
              /\ ret.diff[i].tag = "+" => ret.diff[i].text \in TextsOf(last_staged)
              /\ ret.diff[i].tag = "-" =>
                    ret.diff[i].text \in TextsOf([p \in DOMAIN first_seen |-> AsText(first_seen[p])])

\* A summary with changes, taken after a path was staged again with another
\* text.
C8_Witness ==
    /\ ret.op = "get_diff_summary"
    /\ ret.diff # << >>
    /\ \E p \in restaged : original_contents[p] # disk[p]

\* C9: save(path, stage): stage not given defaults to true exactly when path
\* is None; the target is path when given and the Handle's own file
\* otherwise; with stage true the serialized document goes to
\* Plan.stage(target, content), with stage false it is written to the target.
C9_SaveRoutes ==
    [][ \A h \in Handles, path \in PathArgs, stg \in StageArgs :
          (save(h, path, stg) /\ ~ ret'.raised) =>
             LET staged  == IF stg = "None" THEN path = NoPath ELSE stg = "True"
                 target  == IF path = NoPath THEN file_path(h) ELSE path
                 content == dump(document'[h])
             IN  IF staged
                 THEN /\ target \in Keys(staging_map')
                      /\ Get(staging_map', target) = content
                      /\ disk' = disk
                 ELSE /\ target \in DOMAIN disk'
                      /\ disk'[target] = content
                      /\ staging_map' = staging_map
      ]_vars

\* A call among read, replace, merge, delete and save on Handle h.
HandleCall(h) ==
    \/ read(h)
    \/ \E doc \in Docs : replace(h, doc)
    \/ \E patch \in Docs, strategy \in Strategies \cup {"other"} : merge(h, patch, strategy)
    \/ \E path \in DeletePaths : delete(h, path)
    \/ \E path \in PathArgs, stg \in StageArgs : save(h, path, stg)

\* C10 as stated: the first call among read/replace/merge/delete/save on a
\* Handle not yet loaded performs exactly one load, and every later such call
\* on the same Handle performs none.
C10_LoadsOnceEver ==
    [][ \A h \in Handles :
          HandleCall(h) =>
             ret'.nloads = IF h \in touched \/ loaded[h] THEN 0 ELSE 1
      ]_vars

\* C10, amended: constructing a Handle reads nothing; a call among
\* read/replace/merge/delete/save performs exactly one load on a Handle that is
\* not loaded and none on a loaded one, where read returns the document in
\* memory whatever real storage holds by then; a call whose load raises leaves
\* the Handle not loaded and empty, and the next such call loads again.
C10_LazyLoad ==
    /\ [](\A h \in Handles : ~ loaded[h] => document[h] = EmptyDoc)
    /\ [][ \A h \in Handles :
             \/ /\ ret'.nloads = IF loaded[h] THEN 0 ELSE 1
                /\ (loaded[h] /\ read(h)) => ret'.doc = document[h] /\ ~ ret'.raised
                /\ (~ loaded[h] /\ disk[file_path(h)] = Malformed) =>
                      ret'.raised /\ ~ loaded'[h] /\ document'[h] = EmptyDoc
             \/ ~ HandleCall(h)
         ]_vars

\* A loaded Handle answered a call without loading and without raising while
\* real storage holds a text that no load would accept.
C10_Witness ==
    /\ ret.op = "handle"
    /\ ret.nloads = 0
    /\ ~ ret.raised
    /\ \E h \in touched : loaded[h] /\ disk[file_path(h)] = Malformed

\* C11: an explicit load() on an already loaded Handle re-reads the target:
\* when it returns, the document is the one whose serialization real storage
\* holds (the empty document for an empty or a missing target), whatever
\* replace, merge or delete had left in memory.
C11_ReloadRereads ==
    [][ \A h \in Handles :
          (load(h) /\ loaded[h] /\ ~ ret'.raised) =>
             /\ loaded'[h]
             /\ LET content == disk[file_path(h)]
                IN  IF content = None \/ content = EmptyText
                    THEN document'[h] = EmptyDoc
                    ELSE dump(document'[h]) = content
      ]_vars

\* load() returned on a loaded Handle whose document differed from the one
\* real storage holds.
C11_Witness ==
    /\ ret.op = "load"
    /\ ~ ret.raised
    /\ ret.dropped
    /\ \E h \in touched : loaded[h] /\ dump(document[h]) = disk[file_path(h)]

(* --------------------- claims on documents in memory ------------------- *)
\* The claims speak of values: a value is the set of its leaves, each with
\* the keys that lead to it (see Value).

VIsMap(A) == \A l \in A : l[1] # << >> \/ l[2] = "{}"

VKeys(A) == {l[1][1] : l \in {x \in A : x[1] # << >>}}

\* The value under key k.
VSub(A, k) == {<<Tail(l[1]), l[2]>> : l \in {x \in A : x[1] # << >> /\ x[1][1] = k}}

VEmpty == {<< << >>, "{}" >>}

\* The mapping that holds f[k] under every key k.
VMap(f) ==
    IF DOMAIN f = {} THEN VEmpty
    ELSE UNION {{<< <<k>> \o l[1], l[2] >> : l \in f[k]} : k \in DOMAIN f}

\* The pairwise deep merge of two values: a key absent from the base is
\* inserted, a key whose two values are mappings is merged recursively, and
\* otherwise the patch's value replaces the base's.
RECURSIVE DeepMerge(_, _)
DeepMerge(A, B) ==
    IF VIsMap(A) /\ VIsMap(B)
    THEN VMap([k \in VKeys(A) \cup VKeys(B) |->
                 IF k \notin VKeys(B) THEN VSub(A, k)
                 ELSE IF k \notin VKeys(A) THEN VSub(B, k)
                 ELSE DeepMerge(VSub(A, k), VSub(B, k))])
    ELSE B

\* The left-to-right fold of DeepMerge; the empty mapping for no value.
RECURSIVE FoldDeep(_)
FoldDeep(vs) ==
    IF vs = << >> THEN VEmpty
    ELSE IF Len(vs) = 1 THEN vs[1]
    ELSE FoldDeep(<< DeepMerge(vs[1], vs[2]) >> \o SubSeq(vs, 3, Len(vs)))

\* C12: merge_deep(d1, ..., dn) returns the left-to-right fold of the pairwise
\* deep merge of the values d1, ..., dn have when it is called, and the empty
\* mapping when it is given none.
C12_MergeDeepIsFold ==
    [][ out'.op = "merge_deep" =>
          \A docs \in {ds \in DocLists : Len(ds) = out'.n} :
             merge_deep(docs) =>
                Value(heap', out'.result) = FoldDeep([i \in DOMAIN docs |-> Value(heap, docs[i])])
      ]_vars

\* C13: deep merge is idempotent in the patch: after merge_deep(a, b),
\* merging b into the result leaves a mapping equal to the result, and after
\* handle.merge(p), merging p again leaves the same document.
C13_MergeIdempotent ==
    [][ /\ (out'.op = "merge_deep" /\ out'.n = 2) =>
              \A docs \in {ds \in DocLists : Len(ds) = 2 /\ ds[1] = out'.result} :
                 merge_deep(docs) =>
                    LET again == value_strategy(heap', out'.result, docs[2])
                    IN  Value(again.heap, again.val) = Value(heap', out'.result)
        /\ (out'.op = "merge" /\ merge_loaded("p", "deep")) =>
              LET again == value_strategy(heap', doc_ref', "p")
              IN  Value(again.heap, again.val) = Value(heap', doc_ref')
      ]_vars

\* The Handle merged a patch into its document after a merge_deep had put
\* the nested mapping of one of the caller's mappings into another.
C13_Witness ==
    /\ out.op = "merge"
    /\ Value(heap, doc_ref) # VEmpty
    /\ \E x \in {"p", "q", "r"} :
          dict_has(heap[x], "a") /\ dict_get(heap[x], "a") \in Nested \ {child(x)}

\* C14: merge(patch, strategy="shallow") merges top-level keys only: every
\* key of the patch takes the patch's value as a whole, also where the
\* document held a mapping, every other key keeps its value, and a document
\* that is not a mapping is replaced by the patch.
C14_ShallowTopLevel ==
    [][ (out'.op = "merge" /\ merge_loaded("p", "shallow")) =>
          LET D == Value(heap, doc_ref)
              P == Value(heap, "p")
              R == Value(heap', doc_ref')
          IN  IF VIsMap(D)
              THEN /\ VIsMap(R)
                   /\ VKeys(R) = VKeys(D) \cup VKeys(P)
                   /\ \A k \in VKeys(P) : VSub(R, k) = VSub(P, k)
                   /\ \A k \in VKeys(D) \ VKeys(P) : VSub(R, k) = VSub(D, k)
              ELSE R = P
      ]_vars

\* After a shallow merge the document holds the patch's nested mapping under
\* key a while the mapping it parsed there has other content, and it still
\* holds a key the patch lacks.
C14_Witness ==
    /\ out.op = "merge"
    /\ out.strategy = "shallow"
    /\ doc_ref = "d"
    /\ dict_has(heap["d"], "a") /\ dict_get(heap["d"], "a") = "pc"
    /\ heap["dc"] # << >>
    /\ Value(heap, "dc") # Value(heap, "pc")
    /\ dict_has(heap["d"], "b") /\ ~ dict_has(heap["p"], "b")

\* C15: merge with a strategy name other than deep, shallow or override
\* raises, with the unknown-strategy error once the Handle's document is
\* loaded, and leaves the document as it was: the one in memory for a loaded
\* Handle, the one the target holds for a Handle the call had to load.
C15_UnknownStrategyRaises ==
    [][ \A h \in Handles, patch \in Docs :
          (ret'.op = "handle" /\ merge(h, patch, "other")) =>
             /\ ret'.raised
             /\ loaded'[h] => ret'.error = "strategy"
             /\ loaded[h] => document'[h] = document[h]
             /\ (~ loaded[h] /\ loaded'[h]) =>
                   LET content == disk[file_path(h)]
                   IN  IF content = None \/ content = EmptyText
                       THEN document'[h] = EmptyDoc
                       ELSE dump(document'[h]) = content
      ]_vars

\* A loaded Handle holding a document refused a merge for its strategy name.
C15_Witness ==
    /\ ret.op = "handle"
    /\ ret.raised
    /\ ret.error = "strategy"
    /\ \E h \in touched : loaded[h] /\ document[h] # EmptyDoc

\* Whether every segment of the path but the last leads through a mapping
\* that holds it, and the mapping reached holds the last.
RECURSIVE VResolves(_, _)
VResolves(A, parts) ==
    /\ VIsMap(A)
    /\ Head(parts) \in VKeys(A)
    /\ Len(parts) = 1 \/ VResolves(VSub(A, Head(parts)), Tail(parts))

\* The value without the final key of a path that resolves, and the value
\* itself for a path that does not.
RECURSIVE VRemove(_, _)
VRemove(A, parts) ==
    IF ~ VResolves(A, parts) THEN A
    ELSE IF Len(parts) = 1
    THEN VMap([k \in VKeys(A) \ {Head(parts)} |-> VSub(A, k)])
    ELSE VMap([k \in VKeys(A) |->
                 IF k = Head(parts) THEN VRemove(VSub(A, k), Tail(parts)) ELSE VSub(A, k)])

\* The value after removing each path in turn.
RECURSIVE VRemoveEach(_, _)
VRemoveEach(A, paths) ==
    IF paths = << >> THEN A
    ELSE VRemoveEach(VRemove(A, split(Head(paths))), Tail(paths))

\* C16: delete raises no error; when none of its paths resolves (a segment
\* before the last is missing or is not a mapping, or the final key is
\* absent) it leaves the document unchanged; and the same delete applied
\* again leaves the document the first one left.
C16_DeleteNeverFails ==
    [][ out'.op = "delete" =>
          \A paths \in {ps \in PathLists : Len(ps) = out'.n} :
             delete_loaded(paths) =>
                /\ ~ out'.raised
                /\ (\A i \in DOMAIN paths : ~ VResolves(Value(heap, doc_ref), split(paths[i])))
                      => Value(heap', doc_ref') = Value(heap, doc_ref)
                /\ Value(delete_each(heap', doc_ref', paths), doc_ref') = Value(heap', doc_ref')
      ]_vars

\* A delete left unchanged a document that holds a number under key a and a
\* key b: a.a stops at a value that is not a mapping, b.a and a.b likewise
\* or at an absent key.
C16_Witness ==
    /\ out.op = "delete"
    /\ ~ out.raised
    /\ ~ out.changed
    /\ doc_ref = "d"
    /\ dict_has(heap["d"], "a") /\ dict_get(heap["d"], "a") \in Numbers
    /\ dict_has(heap["d"], "b")

\* C17: delete leaves the document that results from removing, path after
\* path in the given order, the final key of each path that resolves and
\* nothing for a path that does not: every other key and value is unchanged.
C17_DeleteExactKey ==
    [][ out'.op = "delete" =>
          \A paths \in {ps \in PathLists : Len(ps) = out'.n} :
             delete_loaded(paths) =>
                Value(heap', doc_ref') = VRemoveEach(Value(heap, doc_ref), paths)
      ]_vars

\* A delete of two paths changed the document and left it a nested mapping
\* under key a that still holds a key.
C17_Witness ==
    /\ out.op = "delete"
    /\ out.n = 2
    /\ out.changed
    /\ doc_ref = "d"
    /\ dict_has(heap["d"], "a") /\ dict_get(heap["d"], "a") \in Nested
    /\ heap[dict_get(heap["d"], "a")] # << >>

\* C18: when a task raises, the run leaves the Plan empty (staged and
\* original), writes nothing, and returns without invoking another task of
\* the batch: the count of invoked tasks grows no more; a task that stages
\* writes nothing, and a commit that follows the failed run writes nothing.
C18_TaskRaiseRollsBack ==
    [][ /\ (run.pc = "tasks" /\ run.rest # << >> /\ Head(run.rest).kind = "raise"
            /\ apply_task) =>
              /\ staging_map' = << >>
              /\ original_contents' = EmptyMap
              /\ disk' = disk
              /\ run'.failed
              /\ run'.pc = "idle"
              /\ run'.rest = << >>
        /\ (run.pc = "tasks" /\ run.rest # << >> /\ Head(run.rest).kind = "stage"
            /\ apply_task) => disk' = disk
        /\ (run.failed /\ run' # run) => (run'.invoked = 0 /\ ~ run'.failed)
        /\ (run.failed /\ ret.op = "apply" /\ commit) => disk' = disk
      ]_vars

\* The second of three tasks raised after the first had staged a text: the
\* rollback found a staged path, the third task was not invoked and the Plan
\* is empty.
C18_Witness ==
    /\ run.failed
    /\ ret.op = "apply"
    /\ ret.had # {}
    /\ run.selected = 3
    /\ run.invoked = 2
    /\ run.pc = "idle"
    /\ staging_map = << >>

\* C19: apply clears the Plan before it invokes a task; the run calls commit
\* only when every selected task was invoked and none raised, and yes was
\* given or the prompt was answered y or yes (in any case); an answer other
\* than these and a KeyboardInterrupt at the prompt make the run call
\* rollback, which empties the Plan and writes nothing.
C19_CommitOnlyConfirmed ==
    [][ /\ (run.pc = "idle" /\ ret'.op = "apply") =>
              /\ staging_map' = << >>
              /\ original_contents' = EmptyMap
              /\ run'.calls = <<"clear">>
              /\ run'.invoked = 0
        /\ run'.pc # "idle" => (run'.calls = <<"clear">> /\ ~ run'.failed)
        /\ (run.pc # "idle" /\ run'.calls = Append(run.calls, "commit")) =>
              /\ run'.invoked = run'.selected
              /\ run.rest = << >>
              /\ ~ run'.failed
              /\ run'.yes \/ lower(run'.answer) \in {"y", "yes"}
        /\ (run.pc # "idle" /\ disk' # disk) =>
              \/ run'.calls = Append(run.calls, "commit")
              \/ run.rest # << >> /\ Head(run.rest).kind = "write"
        /\ \A response \in (Responses \cup {"KeyboardInterrupt"}) \ {"y", "yes", "Y"} :
              (run.pc = "prompt" /\ apply_answer(response)) =>
                 /\ run'.calls = Append(run.calls, "rollback")
                 /\ staging_map' = << >>
                 /\ original_contents' = EmptyMap
                 /\ disk' = disk
      ]_vars

\* A run whose tasks all returned prompted, was refused, and rolled back the
\* staged text, which real storage does not hold.
C19_Witness ==
    /\ ret.op = "apply"
    /\ run.answer \in {"n", "", "KeyboardInterrupt"}
    /\ run.calls = <<"clear", "rollback">>
    /\ ret.had = {"p2"}
    /\ run.invoked = run.selected
    /\ ~ run.failed
    /\ disk["p2"] = None

\* C20: an apply run with dry_run set returns without invoking a task: no
\* task is left to invoke, the Plan is empty and real storage is as it was.
C20_DryRunDoesNothing ==
    [][ /\ (run.pc = "idle" /\ ret'.op = "apply" /\ run'.dry_run) =>
              /\ run'.pc = "idle"
              /\ run'.rest = << >>
              /\ run'.invoked = 0
              /\ staging_map' = << >>
              /\ original_contents' = EmptyMap
              /\ disk' = disk
        /\ run'.dry_run => (run'.pc = "idle" /\ run'.invoked = 0 /\ run'.calls = <<"clear">>)
      ]_vars

\* A dry run over three selected tasks returned having cleared a staged
\* path, with a file the tasks could have written still missing.
C20_Witness ==
    /\ ret.op = "apply"
    /\ run.dry_run
    /\ run.selected = 3
    /\ run.invoked = 0
    /\ run.pc = "idle"
    /\ ret.had # {}
    /\ staging_map = << >>
    /\ disk["p2"] = None

\* C21: when the write of the i-th staged entry fails, commit raises, every
\* entry staged before it is on real storage with its staged text, every
\* entry after it and every path not staged keeps its real content, and both
\* maps of the Plan are as they were.
C21_CommitFailsMidway ==
    [][ \A i \in DOMAIN staging_map, torn \in BOOLEAN :
          (ret'.raised /\ commit_raises(i, torn)) =>
             /\ ret'.error = "storage"
             /\ \A j \in 1..(i - 1) : disk'[staging_map[j].path] = staging_map[j].text
             /\ \A j \in (i + 1)..Len(staging_map) :
                   disk'[staging_map[j].path] = disk[staging_map[j].path]
             /\ \A p \in Paths \ Keys(staging_map) : disk'[p] = disk[p]
             /\ staging_map' = staging_map
             /\ original_contents' = original_contents
      ]_vars

\* A commit of two staged entries raised: the first is written, the second
\* is not, and both are still staged with their originals.
C21_Witness ==
    /\ ret.op = "commit"
    /\ ret.raised
    /\ Len(staging_map) = 2
    /\ disk[staging_map[1].path] = staging_map[1].text
    /\ disk[staging_map[2].path] # staging_map[2].text
    /\ original_contents[staging_map[1].path] # staging_map[1].text
    /\ DOMAIN original_contents = Keys(staging_map)

\* C22: when a TOML or YAML Handle that holds the document load() made of
\* its existing file is saved, the text it stages is the text of the file,
\* and the diff summary has no block for the path.
C22_RoundTripIdentical ==
    [][ \A h \in FormatHandles :
          (/\ loaded[h]
           /\ exists(disk, format_path(h))
           /\ document[h] = format_loaded(disk, h)
           /\ format_save(h)) =>
             /\ Get(staging_map', format_path(h)) = read_text(disk, format_path(h))
             /\ diff_blocks(SelectSeq(staging_map', LAMBDA e : e.path = format_path(h)),
                            original_contents') = << >>
      ]_vars

\* C23: a change of the mapping read() returned, or of a mapping nested in
\* it, leaves the document of the TOML Handle as it was, and so what a later
\* read() returns and what save() serializes.
C23_ReadDetached ==
    [][ out'.op = "view_set" => Value(heap', doc_ref') = Value(heap, doc_ref) ]_vars

\* C24: TextHandle.save completes and routes as the structured Handles do:
\* it stages the serialized lines when stage is True, or not given with no
\* path, and writes them to the target otherwise; the target is the given
\* path, or the Handle's own without one.
C24_TextSaveRoutes ==
    [][ \A h \in Handles, path \in PathArgs \ {""}, stg \in StageArgs :
          text_save(h, path, stg) =>
             /\ ~ ret'.raised
             /\ LET target == IF path = NoPath THEN file_path(h) ELSE path
                     text   == text_dump(document'[h])
                 IN  IF save_stage(path, stg)
                     THEN /\ target \in Keys(staging_map')
                          /\ Get(staging_map', target) = text
                          /\ disk' = disk
                     ELSE /\ disk' = write_text(disk, target, text)
                          /\ staging_map' = staging_map
      ]_vars

\* C25: after a deep merge into a TOML Handle, a key that the document, or
\* the table under its key a, held before and for which the patch gives a
\* sequence holds the multiline array of the patch's items when they are
\* more than two, and the patch's value when they are at most two.
C25_LongListMultiline ==
    [][ \A patch \in {"p", "u"} :
          (out'.op = "merge" /\ doc_ref = "t" /\ toml_merge(patch, "deep")) =>
             LET Expected(v) == IF len_of(v) > 2 THEN multiline(v) ELSE v
                 pa == dict_get(heap[patch], "a")
                 ta == dict_get(heap["t"], "a")
             IN  /\ (dict_has(heap["t"], "a") /\ type_of(pa) = "list") =>
                        dict_get(heap'["t"], "a") = Expected(pa)
                 /\ (/\ dict_has(heap["t"], "a") /\ type_of(pa) = "dict" /\ ta \in TomlObjs
                     /\ dict_has(heap[ta], "a") /\ type_of(dict_get(heap[pa], "a")) = "list") =>
                        dict_get(heap'[dict_get(heap'["t"], "a")], "a")
                           = Expected(dict_get(heap[pa], "a"))
      ]_vars

\* C26: whenever a step of an apply run returns from apply, whichever way
\* the run went, the Plan holds no staged entry and no original.
C26_PlanEmptyOnReturn ==
    [][ (ret'.op = "apply" /\ run'.pc = "idle" /\ ~ run'.raised) =>
           (staging_map' = << >> /\ original_contents' = EmptyMap) ]_vars

\* C27: a load that returns leaves in the Handle the document parsed from
\* the file on disk (the empty document when there is none), whatever the Plan
\* holds for the path; a Handle that stages over an entry another Handle
\* staged leaves its own document's text as the staged text; and commit
\* writes that text.
C27_LoadReadsDisk ==
    [][ \A h \in TwoHandles :
          LET p == file_path(h)
          IN  /\ (ret'.op = "load" /\ ~ ret'.raised /\ load(h)) =>
                    document'[h] = IF disk[p] = None THEN EmptyDoc ELSE parse(disk[p])
              /\ (/\ ret'.op = "handle" /\ ~ ret'.raised
                  /\ loaded[h] /\ p \in Keys(staging_map)
                  /\ save(h, NoPath, "None")) =>
                    Get(staging_map', p) = dump(document[h])
              /\ (ret'.op = "commit" /\ p \in Keys(staging_map)) =>
                    disk'[p] = Get(staging_map, p)
      ]_vars

\* The second Handle has loaded the file while the text the first Handle
\* staged for it, which is not the file's, is in the Plan: its document is
\* the file's and not the staged one.
C27_Witness ==
    /\ ret.op = "load" /\ ~ ret.raised
    /\ loaded["h1"] /\ loaded["h2"]
    /\ "p1" \in Keys(staging_map)
    /\ disk["p1"] \notin {None, Get(staging_map, "p1")}
    /\ Get(staging_map, "p1") = dump(document["h1"])
    /\ document["h2"] = parse(disk["p1"])
    /\ document["h2"] # document["h1"]

\* C28: a merge leaves every patch as it was: after merge_deep(docs) each
\* mapping but the first has the value, nested mappings included, it had
\* before the call, and after handle.merge(p) the caller's mappings that are
\* not the Handle's document have theirs.
C28_PatchUnchanged ==
    [][ /\ out'.op = "merge_deep" =>
              \A docs \in {ds \in DocLists : Len(ds) = out'.n} :
                 merge_deep(docs) =>
                    \A i \in 2..Len(docs) : Value(heap', docs[i]) = Value(heap, docs[i])
        /\ (out'.op = "merge" /\ merge_loaded("p", "deep")) =>
              Value(heap', "p") = Value(heap, "p")
      ]_vars

\* C29: a load() of a file whose text is malformed raises and leaves the
\* Handle's document and loaded flag, the files and the Plan as they were;
\* and a call on a Handle that is not loaded makes the load attempt, which
\* raises out of the call when the text is malformed, with the Handle still
\* not loaded.
C29_FailedLoadKeepsHandle ==
    [][ \A h \in Handles :
          /\ (ret'.op = "load" /\ load_fails(disk, h)) =>
                /\ ret'.raised /\ ret'.error = "parse"
                /\ document' = document /\ loaded' = loaded
                /\ disk' = disk /\ staging_map' = staging_map
                /\ original_contents' = original_contents
          /\ (ret'.op = "handle" /\ ~ loaded[h]) =>
                /\ ret'.nloads = 1
                /\ load_fails(disk, h) =>
                      /\ ret'.raised /\ ret'.error = "parse"
                      /\ document' = document /\ ~ loaded'[h]
                      /\ disk' = disk /\ staging_map' = staging_map
      ]_vars

\* A load of a malformed file has raised on a Handle that an earlier load
\* had filled from a well-formed file: the Handle still holds that document.
C29_Witness ==
    /\ ret.op = "load" /\ ret.raised /\ ret.error = "parse"
    /\ loaded["h1"] /\ document["h1"] # EmptyDoc
    /\ load_fails(disk, "h1")

\* C30: a commit that follows a Handle's staged save, with that one entry
\* in the Plan, succeeds and leaves the files and directories as the direct
\* save of the same text to the same path would have left them, also when the
\* directory of the path does not exist.
C30_StageCommitAsDirect ==
    [][ (/\ ret.op = "handle" /\ ~ ret.raised /\ Len(staging_map) = 1
         /\ ret'.op = "commit") =>
           /\ ~ ret'.raised
           /\ disk' = save_direct(disk, staging_map[1].path, staging_map[1].text)
      ]_vars

TypeOK ==
    /\ disk \in [Paths -> Contents \cup {None}]
    /\ Keys(staging_map) \subseteq Paths

====
